---- MODULE Spec2Model ----
(***************************************************************************)
(* A2UI v0.8 surface state engine: MessageProcessor + DataModel.           *)
(*                                                                         *)
(* Representation of Python values:                                        *)
(*   dict            a function whose DOMAIN is the set of keys; {} is <<>> *)
(*   ordered dict    (Surface.components) a sequence of <<key, value>>     *)
(*   "k" in d        "k" \in DOMAIN d                                      *)
(*   None / value    <<>> / <<value>>  (Optional)                          *)
(*   data-model node [s |-> str], [n |-> int], [b |-> bool], [m |-> dict]  *)
(*   path string     the sequence of its tokens, "/" or a segment:         *)
(*                   "x/y" is <<"x", "/", "y">>, "/" is <<"/">>, "" is <<>> *)
(*   str result      the sequence of its pieces; "" is <<>>                *)
(***************************************************************************)
EXTENDS Integers, Sequences, FiniteSets, TLC

VARIABLES
    surfaces,   \* MessageProcessor._surfaces
    last,       \* the message of the last process_message call, None before the first
                \* (SpecBatch: [batch |-> messages] after a process_messages call)
    raised,     \* whether that call raised
    existed,    \* whether the surface that message addresses existed before the call
    queue,      \* messages not yet passed to process_messages (SpecBatch)
    batched,    \* _surfaces of the processor fed by process_messages (SpecBatch)
    rendered,   \* what the last call returned when it was a render_surface call that
                \* returned, None otherwise (SpecRender, where last is
                \* [render |-> surface_id, again |-> b] after a render_surface call,
                \* b telling that the call before it was the same one)
    snapshot,   \* the mapping a get_surfaces call returned to the caller, as the
                \* caller sees it now; None before the first call (SpecApi)
    agent       \* one call of ForestArchitectAgent.stream: where it stands, its
                \* locals and the items it has yielded (SpecStream)

vars == <<surfaces, last, raised, existed, queue, batched, rendered, snapshot, agent>>

None == <<>>
Some(v) == <<v>>

EmptyDict == <<>>

\* d[k] = v on a dict
Put(d, k, v) == [x \in (DOMAIN d) \cup {k} |-> IF x = k THEN v ELSE d[x]]

\* del d[k]
Del(d, k) == [x \in (DOMAIN d) \ {k} |-> d[x]]

\* a value that is not a dict: .get on it raises AttributeError
NotADict(v) == (DOMAIN v) \cap {"s", "n", "b", "l"} # {}

-----------------------------------------------------------------------------
(* DataModel (data_model.py)                                               *)

MapNode(d) == [m |-> d]

IsDict(node) == "m" \in DOMAIN node

\* [p for p in path.split("/") if p]
SplitPath(path) == SelectSeq(path, LAMBDA t : t # "/")

\* the value an entry carries: valueString, valueNumber, valueBoolean, valueMap
\* tried in this order; <<>> when the entry carries none
RECURSIVE ContentsToDict(_)

\* the variants tried with valueMap first
EntryValueMapFirst(entry) ==
    IF "valueMap" \in DOMAIN entry THEN Some(MapNode(ContentsToDict(entry.valueMap)))
    ELSE IF "valueString" \in DOMAIN entry THEN Some([s |-> entry.valueString])
    ELSE IF "valueNumber" \in DOMAIN entry THEN Some([n |-> entry.valueNumber])
    ELSE IF "valueBoolean" \in DOMAIN entry THEN Some([b |-> entry.valueBoolean])
    ELSE None

EntryValue(entry) ==
    IF "valueString" \in DOMAIN entry THEN Some([s |-> entry.valueString])
    ELSE IF "valueNumber" \in DOMAIN entry THEN Some([n |-> entry.valueNumber])
    ELSE IF "valueBoolean" \in DOMAIN entry THEN Some([b |-> entry.valueBoolean])
    ELSE IF "valueMap" \in DOMAIN entry THEN Some(MapNode(ContentsToDict(entry.valueMap)))
    ELSE None

\* a conversion that stores the entries without key under the key ""
RECURSIVE ContentsFoldKeepsEmptyKey(_, _)
ContentsFoldKeepsEmptyKey(result, contents) ==
    IF contents = <<>> THEN result
    ELSE LET entry == Head(contents)
             key == IF "key" \in DOMAIN entry THEN entry.key ELSE ""
             val == EntryValue(entry)
         IN IF val = None
            THEN ContentsFoldKeepsEmptyKey(result, Tail(contents))
            ELSE ContentsFoldKeepsEmptyKey(Put(result, key, val[1]), Tail(contents))

\* for entry in contents: key = entry.get("key", ""); if not key: continue; ...
RECURSIVE ContentsFold(_, _)
ContentsFold(result, contents) ==
    IF contents = <<>> THEN result
    ELSE LET entry == Head(contents)
             key == IF "key" \in DOMAIN entry THEN entry.key ELSE ""
             val == EntryValue(entry)
         IN IF key = "" \/ val = None
            THEN ContentsFold(result, Tail(contents))
            ELSE ContentsFold(Put(result, key, val[1]), Tail(contents))

ContentsToDict(contents) == ContentsFold(EmptyDict, contents)

\* the walk of _set_at_path from node `current` along `parts` (non-empty).
\* A node that is not a dict is used as one by the code (`part not in current`
\* on a number, current[part] on a str, current[part] = ... on either), which
\* raises TypeError; `node` is the node as the walk left it.
RECURSIVE SetWalk(_, _, _)
SetWalk(current, parts, value) ==
    IF ~IsDict(current) THEN [raised |-> TRUE, node |-> current]
    ELSE IF Len(parts) = 1
         THEN [raised |-> FALSE, node |-> MapNode(Put(current.m, parts[1], value))]
         ELSE LET part == Head(parts)
                  child == IF part \in DOMAIN current.m THEN current.m[part]
                           ELSE MapNode(EmptyDict)
                  r == SetWalk(child, Tail(parts), value)
              IN [raised |-> r.raised,
                  node |-> MapNode(Put(current.m, part, r.node))]

SetAtPath(data, path, value) ==
    LET parts == SplitPath(path)
    IN IF parts = <<>> THEN [raised |-> FALSE, data |-> data]
       ELSE LET r == SetWalk(MapNode(data), parts, value)
            IN [raised |-> r.raised, data |-> r.node.m]

\* update that merges at the root (dict.update) instead of replacing
UpdateMerges(data, path, contents) ==
    LET new_data == ContentsToDict(contents)
    IN IF path = None \/ path[1] = <<>> \/ path[1] = <<"/">>
       THEN [raised |-> FALSE,
             data |-> [k \in (DOMAIN data) \cup (DOMAIN new_data) |->
                          IF k \in DOMAIN new_data THEN new_data[k] ELSE data[k]]]
       ELSE SetAtPath(data, path[1], MapNode(new_data))

\* DataModel.update; path is None (<<>>) or Some(path string)
Update(data, path, contents) ==
    LET new_data == ContentsToDict(contents)
    IN IF path = None \/ path[1] = <<>> \/ path[1] = <<"/">>
       THEN [raised |-> FALSE, data |-> new_data]
       ELSE SetAtPath(data, path[1], MapNode(new_data))

\* a walk that stays on the current node when a segment cannot be followed
RECURSIVE GetWalkSkipsMissing(_, _)
GetWalkSkipsMissing(current, parts) ==
    IF parts = <<>> THEN Some(current)
    ELSE IF IsDict(current) /\ Head(parts) \in DOMAIN current.m
         THEN GetWalkSkipsMissing(current.m[Head(parts)], Tail(parts))
         ELSE GetWalkSkipsMissing(current, Tail(parts))

RECURSIVE GetWalk(_, _)
GetWalk(current, parts) ==
    IF parts = <<>> THEN Some(current)
    ELSE IF IsDict(current) /\ Head(parts) \in DOMAIN current.m
         THEN GetWalk(current.m[Head(parts)], Tail(parts))
         ELSE None

\* DataModel.get(path) with default None: <<>> or <<node>>
Get(data, path) == GetWalk(MapNode(data), SplitPath(path))

\* DataModel.get(path, default)
GetOr(data, path, default) ==
    LET r == GetWalk(MapNode(data), SplitPath(path))
    IN IF r = None THEN default ELSE r[1]

\* str(x) of a data-model node
Str(node) ==
    IF "s" \in DOMAIN node THEN (IF node.s = "" THEN <<>> ELSE <<node.s>>)
    ELSE IF "b" \in DOMAIN node THEN (IF node.b THEN <<"True">> ELSE <<"False">>)
    ELSE IF "n" \in DOMAIN node THEN <<ToString(node.n)>>
    ELSE IF "m" \in DOMAIN node THEN <<"{", ToString(node.m), "}">>
    ELSE <<"None">>

\* str.lower() on the results of str(bool)
Lower(str) ==
    IF str = <<"True">> THEN <<"true">>
    ELSE IF str = <<"False">> THEN <<"false">>
    ELSE str

\* resolve_value that stringifies whatever the path lookup returns, None included
ResolveValueStringifies(data, value, default) ==
    IF value = None THEN default
    ELSE IF IsDict(value) /\ "path" \in DOMAIN value.m
         THEN LET path_value == Get(data, value.m.path)
              IN IF path_value # None THEN Str(path_value[1]) ELSE <<"None">>
    ELSE Str(value)

\* resolve_value that looks the path up before the tagged literals
ResolveValuePathFirst(data, value, default) ==
    IF value = None THEN default
    ELSE IF IsDict(value) /\ "path" \in DOMAIN value.m
         THEN LET path_value == Get(data, value.m.path)
              IN IF path_value # None THEN Str(path_value[1]) ELSE default
    ELSE IF IsDict(value) /\ "literalString" \in DOMAIN value.m
         THEN Str([s |-> value.m.literalString])
    ELSE IF IsDict(value) /\ "literalNumber" \in DOMAIN value.m
         THEN Str([n |-> value.m.literalNumber])
    ELSE IF IsDict(value) /\ "literalBoolean" \in DOMAIN value.m
         THEN Lower(Str([b |-> value.m.literalBoolean]))
    ELSE IF IsDict(value) /\ value.m = EmptyDict THEN default
    ELSE Str(value)

\* DataModel.resolve_value; value is None (<<>>), a bare str / number / bool
\* ([s |-> ..], [n |-> ..], [b |-> ..]) or a dict ([m |-> ..])
ResolveValue(data, value, default) ==
    IF value = None THEN default
    ELSE IF "s" \in DOMAIN value THEN Str(value)
    ELSE IF "n" \in DOMAIN value \/ "b" \in DOMAIN value THEN Str(value)
    ELSE IF IsDict(value) /\ "literalString" \in DOMAIN value.m
         THEN Str([s |-> value.m.literalString])
    ELSE IF IsDict(value) /\ "literalNumber" \in DOMAIN value.m
         THEN Str([n |-> value.m.literalNumber])
    ELSE IF IsDict(value) /\ "literalBoolean" \in DOMAIN value.m
         THEN Lower(Str([b |-> value.m.literalBoolean]))
    ELSE IF IsDict(value) /\ "path" \in DOMAIN value.m
         THEN LET path_value == Get(data, value.m.path)
              IN IF path_value # None THEN Str(path_value[1]) ELSE default
    ELSE IF IsDict(value) /\ value.m # EmptyDict THEN Str(value)
    ELSE default

-----------------------------------------------------------------------------
(* MessageProcessor (processor.py)                                         *)

\* Surface(surface_id, root_id, components, data_model, styles)
Surface(surface_id, root_id, components, data_model, styles) ==
    [surface_id |-> surface_id, root_id |-> root_id, components |-> components,
     data_model |-> data_model, styles |-> styles]

\* a Surface whose root_id defaults to "c1"
NewSurfaceRooted(surface_id) == Surface(surface_id, Some("c1"), <<>>, EmptyDict, EmptyDict)

\* Surface(surface_id=..., components={}, data_model={}): dataclass defaults
NewSurface(surface_id) == Surface(surface_id, None, <<>>, EmptyDict, EmptyDict)

\* data.get("surfaceId", "default")
SurfaceIdOf(data) == IF "surfaceId" \in DOMAIN data THEN data.surfaceId ELSE "default"

\* ordered dict (Surface.components): key lookup and d[k] = v
OdKeys(od) == {od[i][1] : i \in DOMAIN od}

OdGet(od, k) == od[CHOOSE i \in DOMAIN od : od[i][1] = k][2]

\* an assignment that keeps the fields of the old record the new one lacks
OdPutMerges(od, k, v) ==
    IF k \in OdKeys(od)
    THEN [i \in DOMAIN od |->
            IF od[i][1] = k
            THEN <<k, [f \in (DOMAIN od[i][2]) \cup (DOMAIN v) |->
                         IF f \in DOMAIN v THEN v[f] ELSE od[i][2][f]]>>
            ELSE od[i]]
    ELSE Append(od, <<k, v>>)

\* surface.components[comp_id] = comp
OdPut(od, k, v) ==
    IF k \in OdKeys(od)
    THEN [i \in DOMAIN od |-> IF od[i][1] = k THEN <<k, v>> ELSE od[i]]
    ELSE Append(od, <<k, v>>)

\* beginRendering that keeps the components and data of an existing surface
HandleBeginRenderingKeeps(S, data) ==
    LET surface_id == SurfaceIdOf(data)
        root_id == IF "root" \in DOMAIN data THEN Some(data.root) ELSE None
        styles == IF "styles" \in DOMAIN data THEN data.styles ELSE EmptyDict
        old == IF surface_id \in DOMAIN S THEN S[surface_id] ELSE NewSurface(surface_id)
    IN [raised |-> FALSE,
        surfaces |-> Put(S, surface_id,
                         Surface(surface_id, root_id, old.components, old.data_model,
                                 styles))]

HandleBeginRendering(S, data) ==
    LET surface_id == SurfaceIdOf(data)
        root_id == IF "root" \in DOMAIN data THEN Some(data.root) ELSE None
        styles == IF "styles" \in DOMAIN data THEN data.styles ELSE EmptyDict
    IN [raised |-> FALSE,
        surfaces |-> Put(S, surface_id,
                         Surface(surface_id, root_id, <<>>, EmptyDict, styles))]

\* a surface created anew by every update
EnsureSurfaceResets(S, surface_id) == Put(S, surface_id, NewSurface(surface_id))

\* if surface_id not in self._surfaces: self._surfaces[surface_id] = Surface(...)
EnsureSurface(S, surface_id) ==
    IF surface_id \notin DOMAIN S THEN Put(S, surface_id, NewSurface(surface_id)) ELSE S

\* for comp in components: comp_id = comp.get("id"); if comp_id: components[comp_id] = comp
\* comp.get raises AttributeError on an entry that is not a dict; the entries
\* before it are stored by then.
RECURSIVE UpdateComponents(_, _)
UpdateComponents(od, components) ==
    IF components = <<>> THEN [raised |-> FALSE, components |-> od]
    ELSE LET comp == Head(components)
         IN IF NotADict(comp) THEN [raised |-> TRUE, components |-> od]
            ELSE IF "id" \in DOMAIN comp /\ comp.id # ""
            THEN UpdateComponents(OdPut(od, comp.id, comp), Tail(components))
            ELSE UpdateComponents(od, Tail(components))

\* surfaceUpdate as a tree replace: the components of the message only
HandleSurfaceUpdateReplaces(S, data) ==
    LET surface_id == SurfaceIdOf(data)
        components == IF "components" \in DOMAIN data THEN data.components ELSE <<>>
        S1 == EnsureSurface(S, surface_id)
        surface == S1[surface_id]
        u == UpdateComponents(<<>>, components)
    IN [raised |-> u.raised,
        surfaces |-> Put(S1, surface_id, [surface EXCEPT !.components = u.components])]

HandleSurfaceUpdate(S, data) ==
    LET surface_id == SurfaceIdOf(data)
        components == IF "components" \in DOMAIN data THEN data.components ELSE <<>>
        S1 == EnsureSurface(S, surface_id)
        surface == S1[surface_id]
        u == UpdateComponents(surface.components, components)
    IN [raised |-> u.raised,
        surfaces |-> Put(S1, surface_id, [surface EXCEPT !.components = u.components])]

\* dataModelUpdate that also unsets the root of the surface
HandleDataModelUpdateUnsetsRoot(S, data) ==
    LET surface_id == SurfaceIdOf(data)
        path == IF "path" \in DOMAIN data THEN Some(data.path) ELSE None
        contents == IF "contents" \in DOMAIN data THEN data.contents ELSE <<>>
        S1 == EnsureSurface(S, surface_id)
        surface == S1[surface_id]
        r == Update(surface.data_model, path, contents)
    IN [raised |-> r.raised,
        surfaces |-> Put(S1, surface_id,
                         [surface EXCEPT !.data_model = r.data, !.root_id = None])]

HandleDataModelUpdate(S, data) ==
    LET surface_id == SurfaceIdOf(data)
        path == IF "path" \in DOMAIN data THEN Some(data.path) ELSE None
        contents == IF "contents" \in DOMAIN data THEN data.contents ELSE <<>>
        S1 == EnsureSurface(S, surface_id)
        surface == S1[surface_id]
        r == Update(surface.data_model, path, contents)
    IN [raised |-> r.raised,
        surfaces |-> Put(S1, surface_id, [surface EXCEPT !.data_model = r.data])]

\* surface_id = data.get("surfaceId"); if surface_id and surface_id in self._surfaces
\* deleteSurface that falls back to "default" as the other handlers do
HandleDeleteSurfaceDefaults(S, data) ==
    [raised |-> FALSE, surfaces |-> Del(S, SurfaceIdOf(data))]

\* deleteSurface that drops the whole registry with the surface it names
HandleDeleteSurfaceClears(S, data) ==
    IF "surfaceId" \in DOMAIN data /\ data.surfaceId # "" /\ data.surfaceId \in DOMAIN S
    THEN [raised |-> FALSE, surfaces |-> EmptyDict]
    ELSE [raised |-> FALSE, surfaces |-> S]

HandleDeleteSurface(S, data) ==
    IF "surfaceId" \in DOMAIN data /\ data.surfaceId # "" /\ data.surfaceId \in DOMAIN S
    THEN [raised |-> FALSE, surfaces |-> Del(S, data.surfaceId)]
    ELSE [raised |-> FALSE, surfaces |-> S]

\* process_message with `if` in place of `elif`: every kind present is applied
ProcessMessageAppliesAll(S, message) ==
    LET r0 == [raised |-> FALSE, surfaces |-> S]
        r1 == IF "beginRendering" \in DOMAIN message
              THEN HandleBeginRendering(r0.surfaces, message.beginRendering) ELSE r0
        r2 == IF "surfaceUpdate" \in DOMAIN message
              THEN HandleSurfaceUpdate(r1.surfaces, message.surfaceUpdate) ELSE r1
        r3 == IF "dataModelUpdate" \in DOMAIN message
              THEN HandleDataModelUpdate(r2.surfaces, message.dataModelUpdate) ELSE r2
        r4 == IF "deleteSurface" \in DOMAIN message
              THEN HandleDeleteSurface(r3.surfaces, message.deleteSurface) ELSE r3
    IN [raised |-> r1.raised \/ r2.raised \/ r3.raised \/ r4.raised,
        surfaces |-> r4.surfaces]

\* process_message that raises on a message of no known kind
ProcessMessageRejects(S, message) ==
    IF "beginRendering" \in DOMAIN message
    THEN HandleBeginRendering(S, message.beginRendering)
    ELSE IF "surfaceUpdate" \in DOMAIN message
    THEN HandleSurfaceUpdate(S, message.surfaceUpdate)
    ELSE IF "dataModelUpdate" \in DOMAIN message
    THEN HandleDataModelUpdate(S, message.dataModelUpdate)
    ELSE IF "deleteSurface" \in DOMAIN message
    THEN HandleDeleteSurface(S, message.deleteSurface)
    ELSE [raised |-> TRUE, surfaces |-> S]

ProcessMessage(S, message) ==
    IF "beginRendering" \in DOMAIN message
    THEN HandleBeginRendering(S, message.beginRendering)
    ELSE IF "surfaceUpdate" \in DOMAIN message
    THEN HandleSurfaceUpdate(S, message.surfaceUpdate)
    ELSE IF "dataModelUpdate" \in DOMAIN message
    THEN HandleDataModelUpdate(S, message.dataModelUpdate)
    ELSE IF "deleteSurface" \in DOMAIN message
    THEN HandleDeleteSurface(S, message.deleteSurface)
    ELSE [raised |-> FALSE, surfaces |-> S]

\* process_messages that starts at the second message
ProcessMessagesSkipsFirst(S, messages) ==
    IF Len(messages) < 2 THEN [raised |-> FALSE, surfaces |-> S]
    ELSE LET r == ProcessMessage(S, messages[2])
         IN IF r.raised \/ Len(messages) < 3 THEN r
            ELSE ProcessMessage(r.surfaces, messages[3])

\* process_messages: for message in messages: self.process_message(message);
\* an exception raised by a message leaves the loop
RECURSIVE ProcessMessagesFrom(_, _, _)
ProcessMessagesFrom(S, messages, i) ==
    IF i > Len(messages) THEN [raised |-> FALSE, surfaces |-> S]
    ELSE LET r == ProcessMessage(S, messages[i])
         IN IF r.raised THEN r ELSE ProcessMessagesFrom(r.surfaces, messages, i + 1)

ProcessMessages(S, messages) == ProcessMessagesFrom(S, messages, 1)

\* get_surface: <<>> (None) or <<surface>>
GetSurface(S, surface_id) == IF surface_id \in DOMAIN S THEN Some(S[surface_id]) ELSE None

\* get_data_model(surface_id)._data
GetDataModel(S, surface_id) ==
    IF surface_id \in DOMAIN S THEN S[surface_id].data_model ELSE EmptyDict

\* processor.get_data_model(surface_id).update(path, contents): whether it
\* raises, and the registry after it. The returned DataModel holds
\* surface.data_model.copy(), a new top-level dict whose nested dicts are the
\* surface's own: update at the root rebinds the copy, a path of one segment
\* assigns into the copy, and a longer path whose first segment is a dict of
\* the surface walks into that dict and assigns there.
GetDataModelUpdate(S, surface_id, path, contents) ==
    LET data == GetDataModel(S, surface_id)
        r == Update(data, path, contents)
        parts == IF path = None THEN <<>> ELSE SplitPath(path[1])
        reaches == /\ surface_id \in DOMAIN S
                   /\ Len(parts) >= 2
                   /\ parts[1] \in DOMAIN data
                   /\ IsDict(data[parts[1]])
    IN [raised |-> r.raised,
        surfaces |-> IF reaches
                     THEN Put(S, surface_id,
                              [S[surface_id] EXCEPT
                                 !.data_model = Put(data, parts[1], r.data[parts[1]])])
                     ELSE S]

\* get_surfaces that returns the registry itself
GetSurfacesReturnsRegistry(S) ==
    [is_registry |-> TRUE,
     mapping |-> [id \in DOMAIN S |-> [shared |-> TRUE, surface |-> S[id]]]]

\* get_surfaces: self._surfaces.copy(), a new dict (is_registry tells whether
\* the mapping is the dict self._surfaces) over the Surface objects of the
\* registry (shared tells whether the entry is the object the registry holds
\* under that id; surface is what the caller reads through the entry)
GetSurfaces(S) ==
    [is_registry |-> FALSE,
     mapping |-> [id \in DOMAIN S |-> [shared |-> TRUE, surface |-> S[id]]]]

\* what a returned mapping shows after process_message(message) has taken the
\* registry from S to S2. beginRendering binds a new Surface object to its id
\* and deleteSurface removes the binding: the object of the mapping is the old
\* one, as it was. surfaceUpdate and dataModelUpdate assign to the object the
\* registry holds, which an entry that shares it shows.
Track(returned, message, S2) ==
    IF returned = None THEN None
    ELSE IF returned[1].is_registry THEN Some(GetSurfacesReturnsRegistry(S2))
    ELSE LET mapping == returned[1].mapping
             rebound(id) == \/ id \notin DOMAIN S2
                            \/ /\ "beginRendering" \in DOMAIN message
                               /\ SurfaceIdOf(message.beginRendering) = id
         IN Some([is_registry |-> FALSE,
                  mapping |-> [id \in DOMAIN mapping |->
                                 IF mapping[id].shared /\ ~rebound(id)
                                 THEN [shared |-> TRUE, surface |-> S2[id]]
                                 ELSE [shared |-> FALSE,
                                       surface |-> mapping[id].surface]]])

\* clear_surfaces that empties every surface and keeps the ids registered
ClearSurfacesKeepsIds(S) == [surface_id \in DOMAIN S |-> NewSurface(surface_id)]

\* clear_surfaces: self._surfaces.clear()
ClearSurfaces(S) == EmptyDict

-----------------------------------------------------------------------------
(* HTMLRenderer (components/html_renderer.py)                              *)
(*                                                                         *)
(* A property map is a dict; a property value is tagged like a data-model  *)
(* node, [l |-> seq] being a list. A render returns [raised, html]: html   *)
(* is the str returned, as the sequence of its pieces, and raised tells    *)
(* that an exception left the call instead.                                *)

\* the number of nested _render_component calls the interpreter's stack holds
RecursionLimit == 4

\* HTMLRenderer.__init__: base_url
BaseUrl == "http://localhost:10004"

\* props.get(k): <<>> (None) when absent
PropGet(props, k) == IF k \in DOMAIN props THEN props[k] ELSE None

\* html.escape on one piece: & < > " ' are replaced by entities
EscapePiece(piece) ==
    CASE piece = "a<b" -> "a&lt;b"
      [] piece = "R&D" -> "R&amp;D"
      [] OTHER -> piece

Escape(str) == [i \in DOMAIN str |-> EscapePiece(str[i])]

Returned(html) == [raised |-> FALSE, html |-> html]

Raised == [raised |-> TRUE, html |-> <<>>]

\* _render_text
RenderText(props, data) ==
    IF NotADict(props) THEN Raised
    ELSE LET text == Escape(ResolveValue(data, PropGet(props, "text"), <<>>))
             hint == IF "usageHint" \in DOMAIN props THEN props.usageHint ELSE [s |-> ""]
             css_class == IF hint = [s |-> "h3"] THEN "a2ui-title" ELSE "a2ui-text"
         IN Returned(<<"<p class=\"", css_class, "\">">> \o text \o <<"</p>">>)

\* min(6, level): the upper end only
ClampUpperOnly(level) == IF 6 < level THEN 6 ELSE level

\* max(1, min(6, level))
Clamp(level) ==
    LET low == IF 6 < level THEN 6 ELSE level
    IN IF low > 1 THEN low ELSE 1

\* _render_heading; min(6, level) raises TypeError when level is not a number
RenderHeading(props, data) ==
    IF NotADict(props) THEN Raised
    ELSE LET text == Escape(ResolveValue(data, PropGet(props, "text"), <<>>))
             level == IF "level" \in DOMAIN props THEN props.level ELSE [n |-> 2]
         IN IF "n" \notin DOMAIN level THEN Raised
            ELSE LET h == ToString(Clamp(level.n))
                 IN Returned(<<"<h", h, " class=\"a2ui-heading\">">> \o text
                               \o <<"</h", h, ">">>)

\* url.startswith("/")
StartsWithSlash(url) == url # <<>> /\ url[1] \in {"/img/rose.png"}

\* _render_image
RenderImage(props, data) ==
    IF NotADict(props) THEN Raised
    ELSE LET url == ResolveValue(data, PropGet(props, "url"), <<>>)
             alt == Escape(ResolveValue(data, PropGet(props, "alt"), <<>>))
             full == IF StartsWithSlash(url) THEN <<BaseUrl>> \o url ELSE url
         IN Returned(<<"<img src=\"">> \o Escape(full) \o <<"\" alt=\"">> \o alt
                       \o <<"\" class=\"a2ui-image\" />">>)

\* _render_button without the default label
RenderButtonNoDefault(props, data) ==
    IF NotADict(props) THEN Raised
    ELSE LET label == Escape(ResolveValue(data, PropGet(props, "label"), <<>>))
         IN Returned(<<"<button class=\"a2ui-button\">">> \o label \o <<"</button>">>)

\* _render_button
RenderButton(props, data) ==
    IF NotADict(props) THEN Raised
    ELSE LET label == Escape(ResolveValue(data, PropGet(props, "label"), <<"Button">>))
         IN Returned(<<"<button class=\"a2ui-button\">">> \o label \o <<"</button>">>)

\* _render_divider
RenderDivider == Returned(<<"<hr class=\"a2ui-divider\" />">>)

RECURSIVE RenderComponent(_, _, _, _)

\* _render_card: the child is rendered when child_id is truthy and in the map
RenderCard(props, component_map, data, depth) ==
    IF NotADict(props) THEN Raised
    ELSE LET child_id == IF "child" \in DOMAIN props THEN props.child ELSE ""
             child == IF child_id # "" /\ child_id \in OdKeys(component_map)
                      THEN RenderComponent(OdGet(component_map, child_id), component_map,
                                           data, depth + 1)
                      ELSE Returned(<<>>)
         IN IF child.raised THEN Raised
            ELSE Returned(<<"<div class=\"a2ui-card\">">> \o child.html \o <<"</div>">>)

\* a loop over the children that ends at the first id that is not in the map
RECURSIVE RenderChildrenFromStopsAtAbsent(_, _, _, _, _)
RenderChildrenFromStopsAtAbsent(explicit_list, i, component_map, data, depth) ==
    IF i > Len(explicit_list) THEN Returned(<<>>)
    ELSE IF explicit_list[i] \notin OdKeys(component_map) THEN Returned(<<>>)
    ELSE LET html == RenderComponent(OdGet(component_map, explicit_list[i]), component_map,
                                     data, depth + 1)
         IN IF html.raised THEN Raised
            ELSE LET rest == RenderChildrenFromStopsAtAbsent(explicit_list, i + 1,
                                                             component_map, data, depth)
                 IN IF rest.raised THEN Raised ELSE Returned(html.html \o rest.html)

\* for child_id in explicit_list: if child_id in component_map: ...
RECURSIVE RenderChildrenFrom(_, _, _, _, _)
RenderChildrenFrom(explicit_list, i, component_map, data, depth) ==
    IF i > Len(explicit_list) THEN Returned(<<>>)
    ELSE LET child_id == explicit_list[i]
             html == IF child_id \in OdKeys(component_map)
                     THEN RenderComponent(OdGet(component_map, child_id), component_map,
                                          data, depth + 1)
                     ELSE Returned(<<>>)
         IN IF html.raised THEN Raised
            ELSE LET rest == RenderChildrenFrom(explicit_list, i + 1, component_map,
                                                data, depth)
                 IN IF rest.raised THEN Raised ELSE Returned(html.html \o rest.html)

\* _render_children
RenderChildren(props, component_map, data, depth) ==
    IF NotADict(props) THEN Raised
    ELSE LET children_prop == IF "children" \in DOMAIN props THEN props.children
                              ELSE EmptyDict
         IN IF NotADict(children_prop) THEN Raised
            ELSE LET explicit_list == IF "explicitList" \in DOMAIN children_prop
                                      THEN children_prop.explicitList ELSE <<>>
                 IN RenderChildrenFrom(explicit_list, 1, component_map, data, depth)

\* _render_row, _render_column, _render_list: css is "a2ui-row", "a2ui-column", "a2ui-list"
RenderContainer(css, props, component_map, data, depth) ==
    LET children_html == RenderChildren(props, component_map, data, depth)
    IN IF children_html.raised THEN Raised
       ELSE Returned(<<"<div class=\"", css, "\">">> \o children_html.html \o <<"</div>">>)

\* _render_component, `depth` calls of it being on the stack: one call more
\* than the stack holds raises RecursionError. The wrappers of the model hold
\* one key, which is list(comp_wrapper.keys())[0].
RenderComponent(component, component_map, data, depth) ==
    IF depth >= RecursionLimit THEN Raised
    ELSE LET comp_wrapper == IF "component" \in DOMAIN component THEN component.component
                             ELSE EmptyDict
         IN IF comp_wrapper = EmptyDict THEN Returned(<<>>)
            ELSE LET comp_type == CHOOSE k \in DOMAIN comp_wrapper : TRUE
                     props == comp_wrapper[comp_type]
                 IN CASE comp_type = "Text" -> RenderText(props, data)
                      [] comp_type = "Heading" -> RenderHeading(props, data)
                      [] comp_type = "Image" -> RenderImage(props, data)
                      [] comp_type = "Card" -> RenderCard(props, component_map, data, depth)
                      [] comp_type = "Row" ->
                           RenderContainer("a2ui-row", props, component_map, data, depth)
                      [] comp_type = "Column" ->
                           RenderContainer("a2ui-column", props, component_map, data, depth)
                      [] comp_type = "List" ->
                           RenderContainer("a2ui-list", props, component_map, data, depth)
                      [] comp_type = "Button" -> RenderButton(props, data)
                      [] comp_type = "Divider" -> RenderDivider
                      [] OTHER -> Returned(<<>>)

\* for comp_id, comp in component_map.items(): ... html_parts.append(html)
RECURSIVE RenderAllFrom(_, _, _)
RenderAllFrom(component_map, i, data) ==
    IF i > Len(component_map) THEN Returned(<<>>)
    ELSE LET html == RenderComponent(component_map[i][2], component_map, data, 0)
         IN IF html.raised THEN Raised
            ELSE LET rest == RenderAllFrom(component_map, i + 1, data)
                 IN IF rest.raised THEN Raised ELSE Returned(html.html \o rest.html)

\* render_surface that renders the component named by root_id only
RenderSurfaceFromRoot(S, surface_id) ==
    IF surface_id \notin DOMAIN S THEN Returned(<<>>)
    ELSE LET surface == S[surface_id]
             root == IF surface.root_id # None /\ surface.root_id[1] \in OdKeys(surface.components)
                     THEN RenderComponent(OdGet(surface.components, surface.root_id[1]),
                                          surface.components, surface.data_model, 0)
                     ELSE Returned(<<>>)
         IN IF root.raised THEN Raised
            ELSE Returned(<<"<div class=\"a2ui-surface\">">> \o root.html \o <<"</div>">>)

\* render_surface: "" for a surface that is not there
RenderSurface(S, surface_id) ==
    IF surface_id \notin DOMAIN S THEN Returned(<<>>)
    ELSE LET surface == S[surface_id]
             parts == RenderAllFrom(surface.components, 1, surface.data_model)
         IN IF parts.raised THEN Raised
            ELSE Returned(<<"<div class=\"a2ui-surface\">">> \o parts.html \o <<"</div>">>)

-----------------------------------------------------------------------------
(* Inputs: the wire messages the producer sends                            *)

MaxComponents == 2
MaxBatch == 3
MaxQuery == 3
MaxFollow == 2
MaxPathLen == 4

SeqsUpTo(S, n) == UNION {[1..k -> S] : k \in 0..n}

TextHello == [Text |-> [text |-> [m |-> [literalString |-> "hello"]]]]
TextBound == [Text |-> [text |-> [m |-> [path |-> <<"x">>]]]]

\* surfaceUpdate entries with ids c1 and c2
ComponentEntries ==
    { [id |-> "c1", component |-> TextHello],
      [id |-> "c2", component |-> TextHello] }

\* surfaceUpdate component lists with an entry without id, with an empty id,
\* and with another component for c1
OtherComponentLists ==
    { <<[component |-> TextHello]>>,
      <<[id |-> "", component |-> TextBound], [id |-> "c1", component |-> TextBound]>>,
      <<[id |-> "c1", component |-> TextBound]>>,
      <<[id |-> "c2", component |-> TextHello], [component |-> TextBound]>> }

EntryRose == [key |-> "x", valueString |-> "Rose"]
EntryOne == [key |-> "y", valueNumber |-> 1]
EntryMap == [key |-> "x", valueMap |-> <<[key |-> "y", valueBoolean |-> TRUE]>>]
EntryNoKey == [key |-> "", valueString |-> "Lily"]

\* dataModelUpdate contents: empty, a string, a number behind an entry with an
\* empty key, a nested map
Contents == { <<>>, <<EntryRose>>, <<EntryNoKey, EntryOne>>, <<EntryMap>> }

\* "", "/", "//", "x/y"
Paths == { <<>>, <<"/">>, <<"/", "/">>, <<"x", "/", "y">> }

Keys == {"x", "y"}

Styles == [font |-> "serif"]

BeginRenderingMessages ==
    { [beginRendering |-> d] :
        d \in { [surfaceId |-> "s1"],
                [surfaceId |-> "s1", root |-> "c1", styles |-> Styles],
                [surfaceId |-> ""],
                [styles |-> Styles] } }

SurfaceUpdateMessages ==
    { [surfaceUpdate |-> [surfaceId |-> "s1", components |-> cs]] :
        cs \in SeqsUpTo(ComponentEntries, MaxComponents) \cup OtherComponentLists }
    \cup { [surfaceUpdate |-> [surfaceId |-> "s1"]] }

DataModelUpdateMessages ==
    { [dataModelUpdate |-> [surfaceId |-> "s1", path |-> p, contents |-> c]] :
        p \in Paths, c \in Contents }
    \cup { [dataModelUpdate |-> [surfaceId |-> "s1", contents |-> c]] : c \in Contents }
    \cup { [dataModelUpdate |-> [surfaceId |-> "s1"]] }

DeleteSurfaceMessages ==
    { [deleteSurface |-> d] :
        d \in { [surfaceId |-> "s1"], [surfaceId |-> "default"], [surfaceId |-> "s9"],
                [surfaceId |-> ""], EmptyDict } }

\* messages that carry none of the four kinds
OtherMessages == { EmptyDict, [renderNow |-> [surfaceId |-> "s1"]] }

Messages ==
    BeginRenderingMessages \cup SurfaceUpdateMessages \cup DataModelUpdateMessages
        \cup DeleteSurfaceMessages \cup OtherMessages

-----------------------------------------------------------------------------
(* ForestArchitectAgent.stream (agent.py). A text is the sequence of its    *)
(* pieces; the delimiter is a piece of its own.                            *)

\* max_retries = 1
max_retries == 1

Delimiter == "---a2ui_JSON---"

ConfigApology ==
    <<"I'm sorry, I'm facing an internal configuration error with my UI components. Please contact support.">>

ErrorApology == <<"I'm sorry, I encountered an error and couldn't process your request.">>

TroubleApology ==
    <<"I'm sorry, I'm having trouble generating the interface for that request right now. Please try again in a moment.">>

ValidJson == "[{\"deleteSurface\": {\"surfaceId\": \"s1\"}}]"

InvalidJson == "[{\"foo\": 1}]"

\* the items stream yields
Processing == [is_task_complete |-> FALSE, updates |-> "Calculating forest metrics..."]

Final(content) == [is_task_complete |-> TRUE, content |-> content]

\* "---a2ui_JSON---" in final_response_content
HasDelimiter(content) == \E i \in DOMAIN content : content[i] = Delimiter

\* final_response_content.split("---a2ui_JSON---", 1)[1]: what follows the
\* first delimiter
JsonString(content) ==
    LET first == CHOOSE i \in DOMAIN content :
                    content[i] = Delimiter /\ \A j \in 1..(i - 1) : content[j] # Delimiter
    IN SubSeq(content, first + 1, Len(content))

\* the piece that stands for three backquotes
Fence == "<fence>"

\* the pieces str.strip() removes
Whitespace == { " ", "\n" }

\* the pieces made of the characters of the argument of lstrip only
FenceJsonChars == { Fence, "json", "n" }

\* the pieces made of the characters of the argument of rstrip only
FenceChars == { Fence }

RECURSIVE LStrip(_, _)
\* str.lstrip(chars): the leading characters in chars are removed
LStrip(str, chars) ==
    IF str # <<>> /\ Head(str) \in chars THEN LStrip(Tail(str), chars) ELSE str

RECURSIVE RStrip(_, _)
\* str.rstrip(chars)
RStrip(str, chars) ==
    IF str # <<>> /\ str[Len(str)] \in chars
    THEN RStrip(SubSeq(str, 1, Len(str) - 1), chars) ELSE str

\* str.strip()
Strip(str) == RStrip(LStrip(str, Whitespace), Whitespace)

\* json_string.strip().lstrip("```json").rstrip("```").strip()
Clean(json_string) ==
    Strip(RStrip(LStrip(Strip(json_string), FenceJsonChars), FenceChars))

\* json.loads returns: the string is JSON
Loads(str) == str \in { <<"[]">>, <<ValidJson>>, <<InvalidJson>> }

\* jsonschema.validate returns: the parsed value satisfies the array schema
\* built from a2ui_schema.py
Validates(str) == str \in { <<"[]">>, <<ValidJson>> }

\* the validation that accepts whatever parses
IsValidUiSkipsSchema(content) ==
    IF ~HasDelimiter(content) THEN FALSE
    ELSE LET json_string == JsonString(content)
             json_string_cleaned == Clean(json_string)
         IN IF Strip(json_string) = <<>> \/ json_string_cleaned = <<"[]">> THEN TRUE
            ELSE IF json_string_cleaned = <<>> THEN FALSE
            ELSE Loads(json_string_cleaned)

\* the try block of stream: is_valid after it, every exception it raises
\* (ValueError, JSONDecodeError, ValidationError) being caught
IsValidUi(content) ==
    IF ~HasDelimiter(content) THEN FALSE
    ELSE LET json_string == JsonString(content)
             json_string_cleaned == Clean(json_string)
         IN IF Strip(json_string) = <<>> \/ json_string_cleaned = <<"[]">> THEN TRUE
            ELSE IF json_string_cleaned = <<>> THEN FALSE
            ELSE IF ~Loads(json_string_cleaned) THEN FALSE
            ELSE Validates(json_string_cleaned)

\* the agent at the call of stream: use_ui, and whether a2ui_schema_object is
\* loaded (not None)
NewAgent(use_ui, schema_loaded) ==
    [pc |-> "start", use_ui |-> use_ui, schema_loaded |-> schema_loaded,
     attempt |-> 0, invoked |-> 0, events |-> 0, content |-> None,
     query |-> "query", yielded |-> <<>>]

Yield(a, item) == [a EXCEPT !.yielded = Append(@, item)]

\* if self.use_ui and self.a2ui_schema_object is None: yield ...; return
StreamStart(a) ==
    IF a.use_ui /\ ~a.schema_loaded
    THEN [Yield(a, Final(ConfigApology)) EXCEPT !.pc = "done"]
    ELSE [a EXCEPT !.pc = "loop"]

\* a loop that allows one attempt more
LoopContinuesOnceMore(attempt) == attempt <= max_retries + 1

\* while attempt <= max_retries
LoopContinues(attempt) == attempt <= max_retries

\* the loop test: attempt += 1 and run_async is called, or the loop is left
\* and the last yield is reached
LoopTest(a) ==
    IF LoopContinues(a.attempt)
    THEN [a EXCEPT !.attempt = @ + 1, !.invoked = @ + 1, !.events = 0,
                   !.content = None, !.pc = "events"]
    ELSE [Yield(a, Final(TroubleApology)) EXCEPT !.pc = "done"]

\* an event that is not the final response: yield the processing item
RunnerIntermediate(a) == [Yield(a, Processing) EXCEPT !.events = @ + 1]

\* the final response event, with its text or without (None), or the end of
\* the runner's events without one (None)
RunnerFinal(a, content) == [a EXCEPT !.content = content, !.pc = "after"]

\* from `if final_response_content is None` to the end of the loop body
AfterRun(a) ==
    IF a.content = None /\ a.attempt <= max_retries
    THEN [a EXCEPT !.query = "no_response_retry", !.pc = "loop"]
    ELSE LET final_response_content == IF a.content = None THEN ErrorApology
                                       ELSE a.content[1]
             is_valid == IF a.use_ui THEN IsValidUi(final_response_content) ELSE TRUE
         IN IF is_valid
            THEN [Yield(a, Final(final_response_content)) EXCEPT
                    !.content = Some(final_response_content), !.pc = "done"]
            ELSE [a EXCEPT !.content = Some(final_response_content),
                           !.query = IF a.attempt <= max_retries THEN "invalid_retry"
                                     ELSE @,
                           !.pc = "loop"]

-----------------------------------------------------------------------------
(* The processor driven one message at a time                              *)

\* MessageProcessor.__init__
Init ==
    /\ surfaces = EmptyDict
    /\ last = None
    /\ raised = FALSE
    /\ existed = FALSE
    /\ queue = <<>>
    /\ batched = EmptyDict
    /\ rendered = None
    /\ snapshot = None
    /\ agent = NewAgent(FALSE, TRUE)

\* the surface id a message addresses, by the kind process_message dispatches on:
\* <<>> when it addresses none
Addressed(message) ==
    IF "beginRendering" \in DOMAIN message THEN Some(SurfaceIdOf(message.beginRendering))
    ELSE IF "surfaceUpdate" \in DOMAIN message THEN Some(SurfaceIdOf(message.surfaceUpdate))
    ELSE IF "dataModelUpdate" \in DOMAIN message
    THEN Some(SurfaceIdOf(message.dataModelUpdate))
    ELSE IF "deleteSurface" \in DOMAIN message /\ "surfaceId" \in DOMAIN message.deleteSurface
    THEN Some(message.deleteSurface.surfaceId)
    ELSE None

\* one call processor.process_message(message)
Call(message) ==
    LET r == ProcessMessage(surfaces, message)
    IN /\ surfaces' = r.surfaces
       /\ raised' = r.raised
       /\ last' = Some(message)
       /\ existed' = (Addressed(message) # None /\ Addressed(message)[1] \in DOMAIN surfaces)
       /\ rendered' = None
       /\ snapshot' = Track(snapshot, message, r.surfaces)
       /\ UNCHANGED <<queue, batched, agent>>

BeginRendering == \E message \in BeginRenderingMessages : Call(message)

SurfaceUpdate == \E message \in SurfaceUpdateMessages : Call(message)

DataModelUpdate == \E message \in DataModelUpdateMessages : Call(message)

DeleteSurface == \E message \in DeleteSurfaceMessages : Call(message)

Ignored == \E message \in OtherMessages : Call(message)

Next == BeginRendering \/ SurfaceUpdate \/ DataModelUpdate \/ DeleteSurface \/ Ignored

Spec == Init /\ [][Next]_vars

-----------------------------------------------------------------------------
(* Two processors fed the same stream: `surfaces` by process_message, one  *)
(* call per message, and `batched` by process_messages, one call per batch *)
(* of consecutive messages. `queue` holds the messages `surfaces` has seen *)
(* and `batched` has not. An exception a call raises is not caught: it     *)
(* ends the caller's sequence of calls.                                    *)

BatchMessages ==
    { [beginRendering |-> [surfaceId |-> "s1", root |-> "c1", styles |-> Styles]],
      [surfaceUpdate |-> [surfaceId |-> "s1",
                          components |-> <<[id |-> "c1", component |-> TextHello]>>]],
      [surfaceUpdate |-> [surfaceId |-> "s1",
                          components |-> <<[id |-> "c2", component |-> TextHello],
                                           [id |-> "c1", component |-> TextBound]>>]],
      [dataModelUpdate |-> [surfaceId |-> "s1", contents |-> <<EntryRose, EntryOne>>]],
      [dataModelUpdate |-> [surfaceId |-> "s1", path |-> <<"x", "/", "y">>,
                            contents |-> <<EntryRose>>]],
      [dataModelUpdate |-> [contents |-> <<EntryMap>>]],
      [deleteSurface |-> [surfaceId |-> "s1"]],
      EmptyDict }

\* processor.process_message(message), the message kept for the next batch
Deliver ==
    \E message \in BatchMessages :
        LET r == ProcessMessage(surfaces, message)
        IN /\ ~raised
           /\ Len(queue) < MaxBatch
           /\ surfaces' = r.surfaces
           /\ raised' = r.raised
           /\ last' = Some(message)
           /\ existed' = (Addressed(message) # None
                            /\ Addressed(message)[1] \in DOMAIN surfaces)
           /\ queue' = Append(queue, message)
           /\ rendered' = None
           /\ UNCHANGED <<batched, snapshot, agent>>

\* other.process_messages(queue)
ProcessBatch ==
    /\ queue # <<>>
    /\ batched' = ProcessMessages(batched, queue).surfaces
    /\ queue' = <<>>
    /\ last' = Some([batch |-> queue])
    /\ UNCHANGED <<surfaces, raised, existed, rendered, snapshot, agent>>

NextBatch == Deliver \/ ProcessBatch

SpecBatch == Init /\ [][NextBatch]_vars

-----------------------------------------------------------------------------
(* The processor and a renderer on it: messages that build component       *)
(* graphs on surface s1, interleaved with render_surface calls. An         *)
(* exception a call raises reaches the caller, who goes on calling.        *)

Children(ids) == [children |-> [explicitList |-> ids]]

TextSpecial == [literalString |-> "a<b"]

\* surfaceUpdate component lists: containers over present and absent ids,
\* cards, cyclic references, leaves, and records of malformed shape
RenderComponentLists ==
    { <<[id |-> "c1", component |-> [Row |-> Children(<<"c2", "c9", "c3">>)]]>>,
      <<[id |-> "c1", component |-> [Column |-> Children(<<"c3", "c2">>)]]>>,
      <<[id |-> "c1", component |-> [Card |-> [child |-> "c1"]]]>>,
      <<[id |-> "c1", component |-> [List |-> [children |-> [l |-> <<"c2">>]]]]>>,
      <<[id |-> "c2", component |-> TextHello],
        [id |-> "c3", component |-> [Heading |-> [text |-> [m |-> TextSpecial],
                                                  level |-> [n |-> 9]]]]>>,
      <<[id |-> "c2", component |-> [Card |-> [child |-> "c1"]]]>>,
      <<[id |-> "c2", component |-> [Card |-> [child |-> "c9"]]]>>,
      <<[id |-> "c2"]>>,
      <<[id |-> "c3", weight |-> 1, component |-> TextBound]>>,
      <<[id |-> "c3", component |-> [Text |-> [s |-> "oops"]]]>>,
      <<[id |-> "c3", component |-> [Heading |-> [level |-> [s |-> "big"]]]]>> }

RenderMessages ==
    { [surfaceUpdate |-> [surfaceId |-> "s1", components |-> cs]] :
        cs \in RenderComponentLists }
    \cup { [beginRendering |-> [surfaceId |-> "s1", root |-> "c2"]],
           [dataModelUpdate |-> [surfaceId |-> "s1", contents |-> <<EntryRose>>]] }

\* the surface ids render_surface is called with: s9 is never created
RenderIds == { "s1", "s9" }

\* processor.process_message(message)
Feed == \E message \in RenderMessages : Call(message)

\* a render_surface call that forgets the components it has rendered
RenderSurfaceCallDrains(S, surface_id) ==
    LET r == RenderSurface(S, surface_id)
    IN [raised |-> r.raised, html |-> r.html,
        surfaces |-> IF surface_id \in DOMAIN S
                     THEN Put(S, surface_id, [S[surface_id] EXCEPT !.components = <<>>])
                     ELSE S]

\* one call renderer.render_surface(surface_id): what it returns or raises,
\* and the processor's surfaces after it. get_surface, resolve_value and get
\* assign nothing, and data_model._data is bound to the surface's own dict.
RenderSurfaceCall(S, surface_id) ==
    LET r == RenderSurface(S, surface_id)
    IN [raised |-> r.raised, html |-> r.html, surfaces |-> S]

Render ==
    \E surface_id \in RenderIds :
        LET r == RenderSurfaceCall(surfaces, surface_id)
        IN /\ surfaces' = r.surfaces
           /\ raised' = r.raised
           /\ rendered' = IF r.raised THEN None ELSE Some(r.html)
           /\ last' = Some([render |-> surface_id,
                            again |-> (last = Some([render |-> surface_id, again |-> FALSE])
                                         \/ last = Some([render |-> surface_id,
                                                         again |-> TRUE]))])
           /\ existed' = (surface_id \in DOMAIN surfaces)
           /\ snapshot' = Track(snapshot, EmptyDict, r.surfaces)
           /\ UNCHANGED <<queue, batched, agent>>

NextRender == Feed \/ Render

SpecRender == Init /\ [][NextRender]_vars

-----------------------------------------------------------------------------
(* The processor used through its whole interface: messages, the read      *)
(* accessors, render_surface, clear_surfaces, and a caller that keeps and   *)
(* changes the mapping get_surfaces returned.                              *)

\* messages to s1 and s2; one surfaceUpdate has an entry that is not a dict
ApiMessages ==
    { [beginRendering |-> [surfaceId |-> "s1", root |-> "c1", styles |-> Styles]],
      [surfaceUpdate |-> [surfaceId |-> "s1",
                          components |-> <<[id |-> "c1", component |-> TextHello]>>]],
      [surfaceUpdate |-> [surfaceId |-> "s1",
                          components |-> <<[id |-> "c2", component |-> TextHello],
                                           [s |-> "oops"],
                                           [id |-> "c1", component |-> TextBound]>>]],
      [dataModelUpdate |-> [surfaceId |-> "s1", contents |-> <<EntryRose>>]],
      [deleteSurface |-> [surfaceId |-> "s1"]],
      [surfaceUpdate |-> [surfaceId |-> "s2",
                          components |-> <<[id |-> "c1", component |-> TextHello]>>]],
      [deleteSurface |-> [surfaceId |-> "s2"]] }

\* the ids the accessors are called with: s9 is never created
ApiIds == { "s1", "s9" }

\* processor.process_message(message)
ApiMessage == \E message \in ApiMessages : Call(message)

\* get_surface that takes the surface out of the registry
ReadSurfacePops(S, surface_id) ==
    [result |-> GetSurface(S, surface_id), surfaces |-> Del(S, surface_id)]

\* processor.get_surface(surface_id): what it returns and the registry after it
ReadSurface(S, surface_id) == [result |-> GetSurface(S, surface_id), surfaces |-> S]

\* get_data_model that registers a surface for an id it does not know
ReadDataModelCreates(S, surface_id) ==
    [result |-> GetDataModel(S, surface_id), surfaces |-> EnsureSurface(S, surface_id)]

\* processor.get_data_model(surface_id): the _data of the DataModel it returns
\* and the registry after it
ReadDataModel(S, surface_id) == [result |-> GetDataModel(S, surface_id), surfaces |-> S]

\* a read accessor called by the caller
Read ==
    \E surface_id \in ApiIds, accessor \in {"get_surface", "get_data_model"} :
        LET r == IF accessor = "get_surface" THEN ReadSurface(surfaces, surface_id)
                 ELSE ReadDataModel(surfaces, surface_id)
        IN /\ surfaces' = r.surfaces
           /\ last' = Some([call |-> accessor, surface_id |-> surface_id,
                            result |-> r.result])
           /\ raised' = FALSE
           /\ existed' = (surface_id \in DOMAIN surfaces)
           /\ rendered' = None
           /\ snapshot' = Track(snapshot, EmptyDict, r.surfaces)
           /\ UNCHANGED <<queue, batched, agent>>

\* returned = processor.get_surfaces()
GetSurfacesCall ==
    /\ snapshot' = Some(GetSurfaces(surfaces))
    /\ last' = Some([call |-> "get_surfaces"])
    /\ raised' = FALSE
    /\ existed' = FALSE
    /\ rendered' = None
    /\ UNCHANGED <<surfaces, queue, batched, agent>>

\* the caller's Surface object for an entry it adds or rebinds
CallerSurface(surface_id) == [shared |-> FALSE, surface |-> NewSurface(surface_id)]

\* the caller changes the mapping it got: returned[id] = Surface(...), for an
\* id that is in it or not, or del returned[id]. The registry changes with it
\* when the mapping is the registry.
MutateReturned ==
    /\ snapshot # None
    /\ \E surface_id \in ApiIds, op \in {"set", "del"} :
          LET mapping == snapshot[1].mapping
              changed == IF op = "set" THEN Put(mapping, surface_id, CallerSurface(surface_id))
                         ELSE Del(mapping, surface_id)
          IN /\ (op = "del" => surface_id \in DOMAIN mapping)
             /\ snapshot' = Some([snapshot[1] EXCEPT !.mapping = changed])
             /\ surfaces' = IF snapshot[1].is_registry
                            THEN [id \in DOMAIN changed |-> changed[id].surface]
                            ELSE surfaces
             /\ last' = Some([call |-> "mutate", op |-> op, surface_id |-> surface_id])
             /\ raised' = FALSE
             /\ existed' = (surface_id \in DOMAIN surfaces)
             /\ rendered' = None
             /\ UNCHANGED <<queue, batched, agent>>

\* processor.clear_surfaces()
ClearSurfacesCall ==
    /\ surfaces' = ClearSurfaces(surfaces)
    /\ snapshot' = Track(snapshot, EmptyDict, ClearSurfaces(surfaces))
    /\ last' = Some([call |-> "clear_surfaces"])
    /\ raised' = FALSE
    /\ existed' = FALSE
    /\ rendered' = None
    /\ UNCHANGED <<queue, batched, agent>>

NextApi ==
    ApiMessage \/ Read \/ GetSurfacesCall \/ MutateReturned \/ ClearSurfacesCall \/ Render

SpecApi == Init /\ [][NextApi]_vars

-----------------------------------------------------------------------------
(* One leaf component, a Heading or a Button, rendered over the data models *)
(* of Contents.                                                            *)

MaxLevel == 9

\* the integer heading levels
Levels == (0 - MaxLevel)..MaxLevel

\* Heading properties: each level, and no level
HeadingProps ==
    { [text |-> [m |-> [literalString |-> "hello"]], level |-> [n |-> level]] :
        level \in Levels }
    \cup { [text |-> [m |-> [literalString |-> "hello"]]] }

\* Button labels: bare and tagged literals, the empty string, and paths to
\* x, y and x/y
ButtonLabels ==
    { [s |-> "OK"], [s |-> ""], [n |-> 5], [b |-> TRUE],
      [m |-> [literalString |-> "a<b"]], [m |-> [literalString |-> ""]],
      [m |-> [literalNumber |-> 5]], [m |-> [literalBoolean |-> FALSE]],
      [m |-> [path |-> <<"x">>]], [m |-> [path |-> <<"y">>]],
      [m |-> [path |-> <<"x", "/", "y">>]] }

\* Button properties: each label, and no label
ButtonProps == { [label |-> label] : label \in ButtonLabels } \cup { EmptyDict }

LeafMessages ==
    { [surfaceUpdate |-> [surfaceId |-> "s1",
                          components |-> <<[id |-> "c1", component |-> [Heading |-> props]]>>]] :
        props \in HeadingProps }
    \cup { [surfaceUpdate |-> [surfaceId |-> "s1",
                               components |-> <<[id |-> "c1",
                                                 component |-> [Button |-> props]]>>]] :
             props \in ButtonProps }
    \cup { [dataModelUpdate |-> [surfaceId |-> "s1", contents |-> contents]] :
             contents \in Contents }

FeedLeaf == \E message \in LeafMessages : Call(message)

NextLeaf == FeedLeaf \/ Render

SpecLeaf == Init /\ [][NextLeaf]_vars

-----------------------------------------------------------------------------
(* dataModelUpdate at the root over contents of every entry shape: the     *)
(* conversion _contents_to_dict is what decides the data model.            *)

MaxContents == 2

\* entries with and without key, with one variant, none and several, and
\* with nested maps whose entries are again of these shapes
ConvertEntries ==
    { EntryRose, EntryOne, EntryNoKey, EntryMap,
      [valueNumber |-> 2],
      [key |-> "x"],
      [key |-> "x", valueMap |-> <<EntryNoKey, EntryOne, [valueBoolean |-> TRUE]>>],
      [key |-> "y", valueMap |-> <<[key |-> "x", valueMap |-> <<EntryNoKey, EntryRose>>],
                                   [key |-> "x"]>>],
      [key |-> "y", valueString |-> "Iris", valueNumber |-> 7,
       valueBoolean |-> FALSE, valueMap |-> <<EntryOne>>],
      [key |-> "x", valueNumber |-> 3, valueMap |-> <<EntryOne>>],
      [key |-> "y", valueBoolean |-> TRUE, valueMap |-> <<EntryRose, EntryOne>>] }

ConvertContents == SeqsUpTo(ConvertEntries, MaxContents)

\* processor.process_message({"dataModelUpdate": {"surfaceId": "s1", "contents": contents}})
Convert ==
    \E contents \in ConvertContents :
        Call([dataModelUpdate |-> [surfaceId |-> "s1", contents |-> contents]])

NextConvert == Convert

SpecConvert == Init /\ [][NextConvert]_vars

-----------------------------------------------------------------------------
(* Messages of each kind with and without surfaceId                        *)

DefaultMessages ==
    { [beginRendering |-> EmptyDict],
      [beginRendering |-> [root |-> "c1", styles |-> Styles]],
      [beginRendering |-> [surfaceId |-> "s1"]],
      [beginRendering |-> [surfaceId |-> ""]],
      [surfaceUpdate |-> [components |-> <<[id |-> "c1", component |-> TextHello]>>]],
      [surfaceUpdate |-> [components |-> <<[id |-> "c2", component |-> TextBound]>>]],
      [surfaceUpdate |-> [surfaceId |-> "s1",
                          components |-> <<[id |-> "c1", component |-> TextHello]>>]],
      [dataModelUpdate |-> [contents |-> <<EntryRose>>]],
      [dataModelUpdate |-> [contents |-> <<EntryNoKey, EntryOne>>]],
      [dataModelUpdate |-> [surfaceId |-> "s1", contents |-> <<EntryRose>>]],
      [deleteSurface |-> EmptyDict],
      [deleteSurface |-> [surfaceId |-> ""]],
      [deleteSurface |-> [surfaceId |-> "default"]],
      [deleteSurface |-> [surfaceId |-> "s1"]] }

FeedDefault == \E message \in DefaultMessages : Call(message)

NextDefault == FeedDefault

SpecDefault == Init /\ [][NextDefault]_vars

-----------------------------------------------------------------------------
(* Messages that carry several kinds at once                               *)

\* what a message may carry under each kind, for s1 or for s2
KindBodies(kind) ==
    CASE kind = "beginRendering" ->
           { [surfaceId |-> "s1", root |-> "c1"], [surfaceId |-> "s2"] }
      [] kind = "surfaceUpdate" ->
           { [surfaceId |-> "s1",
              components |-> <<[id |-> "c1", component |-> TextHello]>>],
             [surfaceId |-> "s2",
              components |-> <<[id |-> "c2", component |-> TextBound]>>] }
      [] kind = "dataModelUpdate" ->
           { [surfaceId |-> "s1", contents |-> <<EntryRose>>],
             [surfaceId |-> "s2", contents |-> <<EntryNoKey, EntryOne>>] }
      [] kind = "deleteSurface" ->
           { [surfaceId |-> "s1"], [surfaceId |-> "s2"] }

\* the messages with one kind or more
MultiMessages ==
    UNION { { message \in [kinds -> UNION { KindBodies(kind) : kind \in kinds }] :
                \A kind \in kinds : message[kind] \in KindBodies(kind) } :
            kinds \in (SUBSET { "beginRendering", "surfaceUpdate", "dataModelUpdate",
                                "deleteSurface" }) \ {{}} }

FeedMulti == \E message \in MultiMessages : Call(message)

NextMulti == FeedMulti

SpecMulti == Init /\ [][NextMulti]_vars

-----------------------------------------------------------------------------
(* A caller that updates the DataModel it got from get_data_model          *)

\* None, "/", "x", "y", "x/y", "y/x"
CopyPaths ==
    { None, Some(<<"/">>), Some(<<"x">>), Some(<<"y">>), Some(<<"x", "/", "y">>),
      Some(<<"y", "/", "x">>) }

CopyMessages ==
    { [dataModelUpdate |-> [surfaceId |-> "s1", contents |-> contents]] :
        contents \in Contents }
    \cup { [dataModelUpdate |-> [surfaceId |-> "s1", path |-> <<"y">>,
                                 contents |-> <<EntryRose>>]] }

FeedCopy == \E message \in CopyMessages : Call(message)

\* processor.get_data_model(surface_id).update(path, contents)
UpdateReturned ==
    \E surface_id \in ApiIds, path \in CopyPaths, contents \in Contents :
        LET r == GetDataModelUpdate(surfaces, surface_id, path, contents)
        IN /\ surfaces' = r.surfaces
           /\ raised' = r.raised
           /\ last' = Some([call |-> "get_data_model.update", surface_id |-> surface_id,
                            path |-> path, contents |-> contents])
           /\ existed' = (surface_id \in DOMAIN surfaces)
           /\ rendered' = None
           /\ snapshot' = Track(snapshot, EmptyDict, r.surfaces)
           /\ UNCHANGED <<queue, batched, agent>>

NextCopy == FeedCopy \/ UpdateReturned

SpecCopy == Init /\ [][NextCopy]_vars

-----------------------------------------------------------------------------
(* One call of ForestArchitectAgent.stream against a runner that yields up  *)
(* to MaxEvents intermediate events and then its final response, a text or  *)
(* none.                                                                   *)

MaxEvents == 1

\* the texts a runner may give as its final response
RunnerResponses ==
    { <<"Here is your forest.">>,
      <<"Here is your forest.", Delimiter>>,
      <<"Here is your forest.", Delimiter, " ">>,
      <<"Here is your forest.", Delimiter, "[]">>,
      <<"Here is your forest.", Delimiter, "\n", Fence, "json", "\n", "[]", "\n", Fence>>,
      <<"Here is your forest.", Delimiter, Fence, "json", "\n", Fence>>,
      <<"Here is your forest.", Delimiter, "[{">>,
      <<"Here is your forest.", Delimiter, "n", "ull">>,
      <<"Here is your forest.", Delimiter, "n", "[]">>,
      <<"Here is your forest.", Delimiter, "json", "\n", "[]">>,
      <<"Here is your forest.", Delimiter, InvalidJson>>,
      <<"Here is your forest.", Delimiter, ValidJson>>,
      <<"Here is your forest.", Delimiter, Fence, "json", "\n", ValidJson, "\n", Fence>>,
      <<"Here is your forest.", Delimiter, Fence, "json", "\n", InvalidJson, "\n", Fence>>,
      <<"Here is your forest.", Delimiter, ValidJson, Delimiter, ValidJson>> }

InitStream ==
    /\ surfaces = EmptyDict
    /\ last = None
    /\ raised = FALSE
    /\ existed = FALSE
    /\ queue = <<>>
    /\ batched = EmptyDict
    /\ rendered = None
    /\ snapshot = None
    /\ \E use_ui \in BOOLEAN, schema_loaded \in BOOLEAN :
          agent = NewAgent(use_ui, schema_loaded)

Start ==
    /\ agent.pc = "start"
    /\ agent' = StreamStart(agent)
    /\ UNCHANGED <<surfaces, last, raised, existed, queue, batched, rendered, snapshot>>

Loop ==
    /\ agent.pc = "loop"
    /\ agent' = LoopTest(agent)
    /\ UNCHANGED <<surfaces, last, raised, existed, queue, batched, rendered, snapshot>>

Intermediate ==
    /\ agent.pc = "events"
    /\ agent.events < MaxEvents
    /\ agent' = RunnerIntermediate(agent)
    /\ UNCHANGED <<surfaces, last, raised, existed, queue, batched, rendered, snapshot>>

FinalResponse ==
    /\ agent.pc = "events"
    /\ \E content \in {None} \cup { Some(response) : response \in RunnerResponses } :
          agent' = RunnerFinal(agent, content)
    /\ UNCHANGED <<surfaces, last, raised, existed, queue, batched, rendered, snapshot>>

After ==
    /\ agent.pc = "after"
    /\ agent' = AfterRun(agent)
    /\ UNCHANGED <<surfaces, last, raised, existed, queue, batched, rendered, snapshot>>

NextStream == Start \/ Loop \/ Intermediate \/ FinalResponse \/ After

SpecStream == InitStream /\ [][NextStream]_vars

\* the event loop resumes the generator and the runner gives its events as
\* long as the caller iterates
SpecStreamFair == SpecStream /\ WF_vars(NextStream)

-----------------------------------------------------------------------------
(* Properties                                                              *)

\* the kind process_message dispatches a message on, "" when it carries none
KindOf(message) ==
    IF "beginRendering" \in DOMAIN message THEN "beginRendering"
    ELSE IF "surfaceUpdate" \in DOMAIN message THEN "surfaceUpdate"
    ELSE IF "dataModelUpdate" \in DOMAIN message THEN "dataModelUpdate"
    ELSE IF "deleteSurface" \in DOMAIN message THEN "deleteSurface"
    ELSE ""

LastKind == IF last = None THEN "none" ELSE KindOf(last[1])

\* the ids a surfaceUpdate names: those of the entries that carry a non-empty id
NamedIds(components) ==
    {components[i].id : i \in {j \in DOMAIN components :
                                  "id" \in DOMAIN components[j] /\ components[j].id # ""}}

ComponentsOf(data) == IF "components" \in DOMAIN data THEN data.components ELSE <<>>

\* C1: after beginRendering{surfaceId: s, root: r, styles: st}, from any state,
\* surface s exists with no component, an empty data model, root_id = r and
\* styles = st: nothing the surface held before survives.
C1_BeginRenderingResets ==
    LastKind = "beginRendering" =>
        LET data == last[1].beginRendering
            s == SurfaceIdOf(data)
        IN /\ ~raised
           /\ s \in DOMAIN surfaces
           /\ surfaces[s].surface_id = s
           /\ surfaces[s].components = <<>>
           /\ surfaces[s].data_model = EmptyDict
           /\ ("root" \in DOMAIN data => surfaces[s].root_id = <<data.root>>)
           /\ ("styles" \in DOMAIN data => surfaces[s].styles = data.styles)

\* a beginRendering with root and styles has replaced a surface that existed
C1_Witness ==
    /\ LastKind = "beginRendering"
    /\ existed
    /\ "root" \in DOMAIN last[1].beginRendering
    /\ "styles" \in DOMAIN last[1].beginRendering
    /\ surfaces[SurfaceIdOf(last[1].beginRendering)].root_id = <<"c1">>

\* C2: surfaceUpdate is an incremental patch. The component map after the
\* message is the map before it overridden at the ids of the entries that
\* carry a non-empty id: the keys are the old keys plus the named ids, every
\* component that is not named is unchanged, a named id holds the last entry
\* that names it, and entries without an id or with an empty id add, change
\* and remove nothing.
C2_SurfaceUpdatePatches ==
    [][ (last' # None /\ KindOf(last'[1]) = "surfaceUpdate") =>
          LET data == last'[1].surfaceUpdate
              s == SurfaceIdOf(data)
              components == ComponentsOf(data)
              named == NamedIds(components)
              before == IF s \in DOMAIN surfaces THEN surfaces[s].components ELSE <<>>
              after == surfaces'[s].components
          IN /\ ~raised'
             /\ OdKeys(after) = OdKeys(before) \cup named
             /\ \A k \in OdKeys(before) \ named : OdGet(after, k) = OdGet(before, k)
             /\ \A k \in named :
                  \E i \in DOMAIN components :
                      /\ "id" \in DOMAIN components[i] /\ components[i].id = k
                      /\ OdGet(after, k) = components[i]
                      /\ \A j \in DOMAIN components :
                            ("id" \in DOMAIN components[j] /\ components[j].id = k) => j <= i
             /\ (named = {} => after = before) ]_vars

\* a surfaceUpdate with an entry that has no usable id has named c1 only, and
\* the surface holds c2 besides
C2_Witness ==
    /\ LastKind = "surfaceUpdate"
    /\ LET data == last[1].surfaceUpdate
           components == ComponentsOf(data)
       IN /\ NamedIds(components) = {"c1"}
          /\ \E i \in DOMAIN components :
                "id" \notin DOMAIN components[i] \/ components[i].id = ""
          /\ OdKeys(surfaces[SurfaceIdOf(data)].components) = {"c1", "c2"}

\* C3: surfaceUpdate and dataModelUpdate create the surface, with no
\* component, no data, no root and no styles besides what the message
\* writes, when its id is absent; when the id is present they never reset
\* it: root_id, styles and the attribute the message does not address
\* (the data model for surfaceUpdate, the components for dataModelUpdate)
\* are unchanged, and no component is lost.
C3_UpdatesCreateNeverReset ==
    [][ (last' # None /\ KindOf(last'[1]) \in {"surfaceUpdate", "dataModelUpdate"}) =>
          LET kind == KindOf(last'[1])
              s == Addressed(last'[1])[1]
              fresh == s \notin DOMAIN surfaces
          IN /\ s \in DOMAIN surfaces'
             /\ surfaces'[s].surface_id = s
             /\ fresh =>
                  /\ surfaces'[s].root_id = None
                  /\ surfaces'[s].styles = EmptyDict
                  /\ (kind = "surfaceUpdate" =>
                        /\ surfaces'[s].data_model = EmptyDict
                        /\ OdKeys(surfaces'[s].components)
                             = NamedIds(ComponentsOf(last'[1].surfaceUpdate)))
                  /\ (kind = "dataModelUpdate" => surfaces'[s].components = <<>>)
             /\ ~fresh =>
                  /\ surfaces'[s].root_id = surfaces[s].root_id
                  /\ surfaces'[s].styles = surfaces[s].styles
                  /\ (kind = "surfaceUpdate" =>
                        /\ surfaces'[s].data_model = surfaces[s].data_model
                        /\ OdKeys(surfaces[s].components) \subseteq
                             OdKeys(surfaces'[s].components))
                  /\ (kind = "dataModelUpdate" =>
                        surfaces'[s].components = surfaces[s].components) ]_vars

\* a dataModelUpdate has reached a surface that existed, and the surface still
\* has its root, its styles and a component
C3_Witness ==
    /\ LastKind = "dataModelUpdate"
    /\ existed
    /\ LET s == SurfaceIdOf(last[1].dataModelUpdate)
       IN /\ surfaces[s].root_id = <<"c1">>
          /\ surfaces[s].styles = Styles
          /\ surfaces[s].components # <<>>
          /\ surfaces[s].data_model # EmptyDict

\* the map each contents of the model converts to
ExpectedMap(contents) ==
    CASE contents = <<>> -> EmptyDict
      [] contents = <<EntryRose>> -> [x |-> [s |-> "Rose"]]
      [] contents = <<EntryNoKey, EntryOne>> -> [y |-> [n |-> 1]]
      [] contents = <<EntryMap>> -> [x |-> [m |-> [y |-> [b |-> TRUE]]]]

ContentsOf(data) == IF "contents" \in DOMAIN data THEN data.contents ELSE <<>>

\* C4: a dataModelUpdate whose path is absent or "/" replaces the whole data
\* model of the surface: afterwards the tree is exactly the map converted from
\* contents, so every key that is not in contents is gone.
C4_RootUpdateReplaces ==
    (LastKind = "dataModelUpdate"
       /\ ("path" \in DOMAIN last[1].dataModelUpdate
             => last[1].dataModelUpdate.path = <<"/">>)) =>
        LET data == last[1].dataModelUpdate
            s == SurfaceIdOf(data)
        IN /\ ~raised
           /\ s \in DOMAIN surfaces
           /\ surfaces[s].data_model = ExpectedMap(ContentsOf(data))

\* a dataModelUpdate at "/" with a number for y, behind an entry with an empty
\* key, has replaced the data of a surface that existed
C4_Witness ==
    /\ LastKind = "dataModelUpdate"
    /\ existed
    /\ "path" \in DOMAIN last[1].dataModelUpdate
    /\ last[1].dataModelUpdate.path = <<"/">>
    /\ ContentsOf(last[1].dataModelUpdate) = <<EntryNoKey, EntryOne>>
    /\ surfaces[SurfaceIdOf(last[1].dataModelUpdate)].data_model = [y |-> [n |-> 1]]

\* get(path) for the path made of the segments `parts`
GetParts(data, parts) == GetWalk(MapNode(data), parts)

IsPrefix(a, b) == Len(a) <= Len(b) /\ SubSeq(b, 1, Len(a)) = a

\* C5: a dataModelUpdate with a non-root path p writes the converted map as
\* the value at p and changes nothing else: get(p) returns the converted map,
\* and get(q) returns what it returned before for every q that is neither p,
\* a prefix of p, nor below p.
C5_PathUpdateWritesOnlyAtPath ==
    [][ (last' # None /\ KindOf(last'[1]) = "dataModelUpdate"
           /\ "path" \in DOMAIN last'[1].dataModelUpdate
           /\ SplitPath(last'[1].dataModelUpdate.path) # <<>>) =>
          LET data == last'[1].dataModelUpdate
              s == SurfaceIdOf(data)
              p == SplitPath(data.path)
              before == GetDataModel(surfaces, s)
              after == GetDataModel(surfaces', s)
          IN /\ GetParts(after, p) = <<MapNode(ExpectedMap(ContentsOf(data)))>>
             /\ \A q \in SeqsUpTo(Keys, MaxQuery) :
                  (~IsPrefix(q, p) /\ ~IsPrefix(p, q)) =>
                      GetParts(after, q) = GetParts(before, q) ]_vars

\* C6: deleteSurface{surfaceId: s} removes surface s, and nothing else, when
\* s exists; when s does not exist it raises nothing and leaves every surface
\* unchanged.
C6_DeleteRemovesExisting ==
    [][ (last' # None /\ KindOf(last'[1]) = "deleteSurface"
           /\ "surfaceId" \in DOMAIN last'[1].deleteSurface) =>
          LET s == last'[1].deleteSurface.surfaceId
          IN /\ ~raised'
             /\ s \notin DOMAIN surfaces'
             /\ DOMAIN surfaces' = (DOMAIN surfaces) \ {s}
             /\ \A b \in DOMAIN surfaces' : surfaces'[b] = surfaces[b] ]_vars

\* messages addressed to surface s that may follow a deleteSurface{s}
FollowMessages(s) ==
    { [beginRendering |-> [surfaceId |-> s, root |-> "c1"]],
      [surfaceUpdate |-> [surfaceId |-> s,
                          components |-> <<[id |-> "c1", component |-> TextHello]>>]],
      [dataModelUpdate |-> [surfaceId |-> s, contents |-> <<EntryRose>>]],
      [dataModelUpdate |-> [surfaceId |-> s, path |-> <<"x", "/", "y">>,
                            contents |-> <<EntryNoKey, EntryOne>>]],
      [deleteSurface |-> [surfaceId |-> s]] }

\* C7: no tombstone. After deleteSurface{s}, get_surface(s) reports not found,
\* and whatever messages follow, the record of s is the one a processor that
\* never saw s ends with; a surfaceUpdate that follows yields a surface with
\* an empty data model and the components of that update only.
C7_NoTombstone ==
    (LastKind = "deleteSurface" /\ "surfaceId" \in DOMAIN last[1].deleteSurface) =>
        LET s == last[1].deleteSurface.surfaceId
        IN /\ GetSurface(surfaces, s) = None
           /\ \A M \in SeqsUpTo(FollowMessages(s), MaxFollow) :
                LET here == ProcessMessages(surfaces, M)
                    new == ProcessMessages(EmptyDict, M)
                IN /\ here.raised = new.raised
                   /\ GetSurface(here.surfaces, s) = GetSurface(new.surfaces, s)
           /\ \A message \in SurfaceUpdateMessages :
                SurfaceIdOf(message.surfaceUpdate) = s =>
                    LET after == ProcessMessage(surfaces, message).surfaces[s]
                    IN /\ after.data_model = EmptyDict
                       /\ OdKeys(after.components)
                            = NamedIds(ComponentsOf(message.surfaceUpdate))

\* C8: batching is not observable. The processor fed by process_messages, in
\* batches of any sizes, is in the state of the processor fed the same
\* messages by process_message one at a time, whenever no message is
\* pending; and the pending messages, processed as one batch, lead to that
\* state: none is skipped, repeated or reordered.
C8_BatchingNotObservable ==
    /\ queue = <<>> => batched = surfaces
    /\ ProcessMessages(batched, queue).surfaces = surfaces
    /\ queue # <<>> => ProcessMessages(batched, queue).raised = raised

\* a batch of MaxBatch messages has been processed and left surfaces behind
C8_Witness ==
    /\ last # None
    /\ "batch" \in DOMAIN last[1]
    /\ Len(last[1].batch) = MaxBatch
    /\ queue = <<>>
    /\ "s1" \in DOMAIN batched
    /\ batched["s1"].components # <<>>
    /\ batched["s1"].data_model # EmptyDict

\* C9: a message that carries none of the four kinds is ignored: the call
\* raises nothing and leaves the set of surfaces and every record unchanged.
C9_UnknownMessageIgnored ==
    [][ (last' # None /\ KindOf(last'[1]) = "") =>
          (~raised' /\ surfaces' = surfaces) ]_vars

\* a message of no known kind has been processed with surfaces present
C9_Witness ==
    /\ LastKind = ""
    /\ last[1] # EmptyDict
    /\ ~raised
    /\ DOMAIN surfaces = {"s1", "default"}

Defaults == { <<>>, <<"N/A">> }

SurfaceIds == { "s1", "default", "", "s9" }

PathTo(x) == [m |-> [path |-> <<x>>]]

\* the text of a stored scalar
ExpectedText(node) ==
    CASE node = [s |-> "Rose"] -> <<"Rose">>
      [] node = [n |-> 1] -> <<"1">>
      [] node = [b |-> TRUE] -> <<"True">>
      [] OTHER -> <<"?">>

\* C10: on every surface, resolve_value({path: x}, d) returns the value
\* stored at x when x is set, the default d when x is not set (never set, or
\* removed by a root-replacing dataModelUpdate without x, a beginRendering or
\* a deleteSurface), and never a placeholder such as "None" or "null".
C10_ResolvePathOrDefault ==
    /\ \A s \in SurfaceIds, x \in Keys, d \in Defaults :
         LET data == GetDataModel(surfaces, s)
             r == ResolveValue(data, PathTo(x), d)
         IN /\ r \notin { <<"None">>, <<"null">> }
            /\ (x \notin DOMAIN data => r = d)
            /\ (x \in DOMAIN data /\ ~IsDict(data[x]) => r = ExpectedText(data[x]))
            /\ (x \in DOMAIN data /\ IsDict(data[x]) => r \notin Defaults)
    /\ (LastKind = "dataModelUpdate" /\ "path" \notin DOMAIN last[1].dataModelUpdate) =>
         LET data == last[1].dataModelUpdate
             dm == GetDataModel(surfaces, SurfaceIdOf(data))
         IN \A d \in Defaults :
              /\ (ContentsOf(data) = <<EntryRose>> =>
                    /\ ResolveValue(dm, PathTo("x"), d) = <<"Rose">>
                    /\ ResolveValue(dm, PathTo("y"), d) = d)
              /\ (ContentsOf(data) = <<EntryNoKey, EntryOne>> =>
                    /\ ResolveValue(dm, PathTo("y"), d) = <<"1">>
                    /\ ResolveValue(dm, PathTo("x"), d) = d)
    /\ (LastKind = "beginRendering"
          \/ (LastKind = "deleteSurface" /\ existed /\ Addressed(last[1])[1] # "")) =>
         \A x \in Keys, d \in Defaults :
            ResolveValue(GetDataModel(surfaces, Addressed(last[1])[1]), PathTo(x), d) = d

\* a dataModelUpdate has set x to "Rose" on a surface that existed, and the
\* path x resolves to it
C10_Witness ==
    /\ LastKind = "dataModelUpdate"
    /\ existed
    /\ ContentsOf(last[1].dataModelUpdate) = <<EntryRose>>
    /\ "path" \notin DOMAIN last[1].dataModelUpdate
    /\ ResolveValue(GetDataModel(surfaces, "s1"), PathTo("x"), <<"N/A">>) = <<"Rose">>
    /\ ResolveValue(GetDataModel(surfaces, "s1"), PathTo("y"), <<"N/A">>) = <<"N/A">>

\* bound values that carry a tagged literal and a path
LiteralAndPath ==
    { [m |-> [literalString |-> "hello", path |-> <<"x">>]],
      [m |-> [literalString |-> "", path |-> <<"x">>]],
      [m |-> [literalNumber |-> 7, path |-> <<"y">>]],
      [m |-> [literalBoolean |-> FALSE, path |-> <<"x">>]],
      [m |-> [literalString |-> "hello", literalNumber |-> 7, path |-> <<"x">>]] }

\* the text of the tagged literal of such a value
LiteralText(value) ==
    IF "literalString" \in DOMAIN value.m
    THEN (IF value.m.literalString = "" THEN <<>> ELSE <<value.m.literalString>>)
    ELSE IF "literalNumber" \in DOMAIN value.m THEN <<"7">>
    ELSE <<"false">>

\* C11: resolve_value applies one interpretation, the first that matches in
\* the order bare literal, tagged literal, path lookup, default. An absent
\* value resolves to the default; a bare string or number to itself, a bare
\* string that is also a key of the data model included; a value with a
\* tagged literal and a path to the literal, whatever the data model holds
\* at the path; a value with a path only to what is stored there, or to the
\* default when nothing is; an empty map to the default.
C11_ResolutionOrder ==
    \A s \in SurfaceIds, d \in Defaults :
        LET data == GetDataModel(surfaces, s)
        IN /\ ResolveValue(data, None, d) = d
           /\ ResolveValue(data, [s |-> "x"], d) = <<"x">>
           /\ ResolveValue(data, [n |-> 7], d) = <<"7">>
           /\ \A value \in LiteralAndPath :
                /\ ResolveValue(data, value, d) = LiteralText(value)
                /\ ResolveValue(data, value, d) = ResolveValue(EmptyDict, value, d)
           /\ \A x \in Keys :
                ResolveValue(data, PathTo(x), d) =
                    IF x \in DOMAIN data THEN Str(data[x]) ELSE d
           /\ ResolveValue(data, [m |-> EmptyDict], d) = d

\* x holds "Rose" on s1 and y nothing: the path x resolves to "Rose", the
\* path y to the default, and a value with a literal and the path x to the
\* literal
C11_Witness ==
    /\ LastKind = "dataModelUpdate"
    /\ "s1" \in DOMAIN surfaces
    /\ LET data == GetDataModel(surfaces, "s1")
       IN /\ DOMAIN data = {"x"}
          /\ data["x"] = [s |-> "Rose"]
          /\ ResolveValue(data, PathTo("x"), <<"N/A">>) = <<"Rose">>
          /\ ResolveValue(data, PathTo("y"), <<"N/A">>) = <<"N/A">>
          /\ ResolveValue(data, [m |-> [literalString |-> "hello", path |-> <<"x">>]],
                          <<"N/A">>) = <<"hello">>
          /\ ResolveValue(data, [m |-> [literalBoolean |-> FALSE, path |-> <<"x">>]],
                          <<"N/A">>) = <<"false">>

\* C12: every boolean bound value, bare or tagged literalBoolean, resolves to
\* lowercase "true" or "false".
C12_BooleansLowercase ==
    \A s \in SurfaceIds, d \in Defaults, b \in BOOLEAN :
        LET data == GetDataModel(surfaces, s)
            text == IF b THEN <<"true">> ELSE <<"false">>
        IN /\ ResolveValue(data, [m |-> [literalBoolean |-> b]], d) = text
           /\ ResolveValue(data, [b |-> b], d) = text

\* a path string: no two segments without a "/" between them
WellFormed(path) ==
    \A i \in 1..(Len(path) - 1) : path[i] = "/" \/ path[i + 1] = "/"

\* the paths get is called with, such as "", "/", "x", "/x", "x/y", "x//y"
QueryPaths == { path \in SeqsUpTo(Keys \cup {"/"}, MaxPathLen) : WellFormed(path) }

GetDefaults == { [s |-> "none"], [n |-> 0] }

\* the non-empty segments of a path
Segments(path) == SelectSeq(path, LAMBDA t : t \in Keys)

\* the node the segments lead to from the root, each one a key of the map the
\* one before leads to: <<>> when there is none
Reached(data, segments) ==
    LET n == Len(segments)
        at1 == IF n >= 1 /\ segments[1] \in DOMAIN data THEN Some(data[segments[1]]) ELSE None
        at2 == IF n >= 2 /\ at1 # None /\ IsDict(at1[1]) /\ segments[2] \in DOMAIN at1[1].m
               THEN Some(at1[1].m[segments[2]]) ELSE None
        at3 == IF n >= 3 /\ at2 # None /\ IsDict(at2[1]) /\ segments[3] \in DOMAIN at2[1].m
               THEN Some(at2[1].m[segments[3]]) ELSE None
    IN CASE n = 0 -> Some(MapNode(data))
         [] n = 1 -> at1
         [] n = 2 -> at2
         [] n = 3 -> at3

\* C13: get(path, default) returns the node reached by walking the non-empty
\* segments of path from the root, and default when a segment is missing or
\* would have to be looked up in a scalar.
C13_GetWalksOrDefault ==
    \A path \in QueryPaths, default \in GetDefaults :
        LET data == GetDataModel(surfaces, "s1")
            node == Reached(data, Segments(path))
        IN GetOr(data, path, default) = IF node = None THEN default ELSE node[1]

\* x holds "Rose" on s1: "/x" reads it, "x/y" looks y up in the scalar and
\* "y" is missing
C13_Witness ==
    /\ LastKind = "dataModelUpdate"
    /\ LET data == GetDataModel(surfaces, "s1")
       IN /\ "x" \in DOMAIN data
          /\ data["x"] = [s |-> "Rose"]
          /\ GetOr(data, <<"/", "x">>, [n |-> 0]) = [s |-> "Rose"]
          /\ GetOr(data, <<"x", "/", "y">>, [n |-> 0]) = [n |-> 0]
          /\ GetOr(data, <<"y">>, [n |-> 0]) = [n |-> 0]

\* C14: a dataModelUpdate with a non-root path completes without raising and
\* leaves a valid tree: every proper prefix of the path leads to a map, a
\* scalar that was in the way being overwritten, and get(path) returns the
\* written map.
C14_PathWriteKeepsTree ==
    [][ (last' # None /\ KindOf(last'[1]) = "dataModelUpdate"
           /\ "path" \in DOMAIN last'[1].dataModelUpdate
           /\ SplitPath(last'[1].dataModelUpdate.path) # <<>>) =>
          LET data == last'[1].dataModelUpdate
              p == SplitPath(data.path)
              after == GetDataModel(surfaces', SurfaceIdOf(data))
          IN /\ ~raised'
             /\ \A k \in 1..(Len(p) - 1) :
                  /\ GetParts(after, SubSeq(p, 1, k)) # None
                  /\ IsDict(GetParts(after, SubSeq(p, 1, k))[1])
             /\ GetParts(after, p) = <<MapNode(ContentsToDict(ContentsOf(data)))>> ]_vars

\* C15: paths normalize the same way for reads and writes. Two paths with
\* the same non-empty segments read the same node and, written with the same
\* contents, lead to the same tree; a path without a non-empty segment ("",
\* "/", "//") is the root: get returns the whole tree and a dataModelUpdate
\* at it replaces the tree by the converted contents.
C15_PathsNormalize ==
    [][ /\ \A p \in QueryPaths, q \in QueryPaths :
              Segments(p) = Segments(q) =>
                  LET data == GetDataModel(surfaces', "s1")
                  IN /\ Get(data, p) = Get(data, q)
                     /\ \A contents \in Contents :
                          Update(data, Some(p), contents) = Update(data, Some(q), contents)
        /\ (last' # None /\ KindOf(last'[1]) = "dataModelUpdate"
              /\ "path" \in DOMAIN last'[1].dataModelUpdate
              /\ SplitPath(last'[1].dataModelUpdate.path) = <<>>) =>
             LET data == last'[1].dataModelUpdate
             IN /\ ~raised'
                /\ GetDataModel(surfaces', SurfaceIdOf(data))
                     = ContentsToDict(ContentsOf(data)) ]_vars

-----------------------------------------------------------------------------
(* Properties of rendering (SpecRender)                                    *)

\* the last call was render_surface
IsRender == last # None /\ "render" \in DOMAIN last[1]

Containers == { "Row", "Column", "List" }

\* the type and the properties of a component record; "" when it has no wrapper
TypeOf(component) ==
    IF "component" \in DOMAIN component /\ component.component # EmptyDict
    THEN CHOOSE k \in DOMAIN component.component : TRUE
    ELSE ""

PropsOf(component) == component.component[TypeOf(component)]

\* the record has the shape of its type: the properties are a map, the level
\* of a Heading is a number, the children of a container are a map
WellShaped(component) ==
    TypeOf(component) # "" =>
        LET props == PropsOf(component)
        IN /\ ~NotADict(props)
           /\ (TypeOf(component) = "Heading" /\ "level" \in DOMAIN props)
                => "n" \in DOMAIN props.level
           /\ (TypeOf(component) \in Containers /\ "children" \in DOMAIN props)
                => ~NotADict(props.children)

\* the ids a well-shaped record refers to by child or children.explicitList
ChildIds(component) ==
    IF ~WellShaped(component) THEN {}
    ELSE IF TypeOf(component) = "Card"
    THEN (IF "child" \in DOMAIN PropsOf(component) THEN {PropsOf(component).child} ELSE {})
    ELSE IF TypeOf(component) \in Containers
              /\ "children" \in DOMAIN PropsOf(component)
              /\ "explicitList" \in DOMAIN PropsOf(component).children
    THEN {PropsOf(component).children.explicitList[i] :
            i \in DOMAIN PropsOf(component).children.explicitList}
    ELSE {}

\* the ids that id a refers to, directly or through other components of the map
RECURSIVE Below(_, _, _)
Below(component_map, ids, n) ==
    LET next == UNION { ChildIds(OdGet(component_map, a)) \cap OdKeys(component_map) :
                          a \in ids }
    IN IF n = 0 THEN {} ELSE next \cup Below(component_map, next, n - 1)

\* a component refers to itself or to one that refers back to it
Cyclic(component_map) ==
    \E a \in OdKeys(component_map) : a \in Below(component_map, {a}, Len(component_map))

\* the output of each component of the map rendered on its own
Fragments(component_map, data) ==
    [i \in DOMAIN component_map |->
        RenderComponent(component_map[i][2], component_map, data, 0)]

\* "".join(parts)
RECURSIVE Join(_)
Join(parts) == IF parts = <<>> THEN <<>> ELSE Head(parts) \o Join(Tail(parts))

\* C16: render_surface renders every component of the surface's map on its
\* own, whatever root_id is and whether or not another component refers to
\* it, and returns the results concatenated in the order of the map inside
\* the surface element; a component that is a child of another one is in the
\* output inside that parent and once more as a fragment of its own.
C16_RendersEveryComponent ==
    \A surface_id \in (DOMAIN surfaces) \cap RenderIds :
        LET surface == surfaces[surface_id]
            fragments == Fragments(surface.components, surface.data_model)
            r == RenderSurface(surfaces, surface_id)
            other == Put(surfaces, surface_id, [surface EXCEPT !.root_id = None])
        IN /\ r.raised = (\E i \in DOMAIN fragments : fragments[i].raised)
           /\ ~r.raised =>
                r.html = <<"<div class=\"a2ui-surface\">">>
                           \o Join([i \in DOMAIN fragments |-> fragments[i].html])
                           \o <<"</div>">>
           /\ RenderSurface(other, surface_id) = r
           /\ (IsRender /\ last[1].render = surface_id) =>
                (raised = r.raised /\ (~raised => rendered = Some(r.html)))

\* render_surface has returned, for a surface whose root c2 is a Text, the Row
\* c1 over c2, the absent c9 and c3, followed by c2 and c3 once more
C16_Witness ==
    /\ IsRender
    /\ last[1].render = "s1"
    /\ "s1" \in DOMAIN surfaces
    /\ surfaces["s1"].root_id = Some("c2")
    /\ rendered = Some(<<"<div class=\"a2ui-surface\">",
                         "<div class=\"", "a2ui-row", "\">",
                         "<p class=\"", "a2ui-text", "\">", "hello", "</p>",
                         "<p class=\"", "a2ui-text", "\">", "Rose", "</p>",
                         "</div>",
                         "<p class=\"", "a2ui-text", "\">", "hello", "</p>",
                         "<p class=\"", "a2ui-text", "\">", "Rose", "</p>",
                         "</div>">>)

\* every record of the surface the last render_surface call was for
RenderedComponents ==
    IF IsRender /\ last[1].render \in DOMAIN surfaces
    THEN surfaces[last[1].render].components
    ELSE <<>>

\* C17: render_surface returns on every surface whose records refer to each
\* other in a cycle: for component records of well-formed shape, cyclic child
\* and children references included, the call raises nothing and returns
\* the output of the surface.
C17_CyclesRenderEmpty ==
    (IsRender /\ \A i \in DOMAIN RenderedComponents : WellShaped(RenderedComponents[i][2]))
        => (~raised /\ rendered # None)

\* C18: render_surface changes no state of the processor, and a second
\* render_surface(s) call right after the first, no message in between,
\* returns or raises what the first did.
C18_RenderIsPure ==
    [][ (last' # None /\ "render" \in DOMAIN last'[1]) =>
          /\ surfaces' = surfaces
          /\ last'[1].again => (raised' = raised /\ rendered' = rendered) ]_vars

\* render_surface(s1) has returned for the second time in a row the output of
\* a surface with components
C18_Witness ==
    /\ IsRender
    /\ last[1].render = "s1"
    /\ last[1].again
    /\ existed
    /\ Len(surfaces["s1"].components) = 3
    /\ rendered # None
    /\ Len(rendered[1]) > 2

CssOf(type) ==
    CASE type = "Row" -> "a2ui-row"
      [] type = "Column" -> "a2ui-column"
      [] type = "List" -> "a2ui-list"

\* C19: a Row, Column or List renders the children of children.explicitList
\* that are in the component map, in listed order, each as it renders on its
\* own, and nothing for an id that is absent; a Card renders its child when
\* it is in the map and empty content when it is not. An absent id raises
\* nothing: the container raises only when a child that is present does.
C19_ContainersSkipAbsent ==
    \A surface_id \in (DOMAIN surfaces) \cap RenderIds :
        LET surface == surfaces[surface_id]
            component_map == surface.components
            fragments == Fragments(component_map, surface.data_model)
        IN \A i \in DOMAIN component_map :
             LET component == component_map[i][2]
                 type == TypeOf(component)
                 listed == IF type = "Card"
                           THEN (IF "child" \in DOMAIN PropsOf(component)
                                 THEN <<PropsOf(component).child>> ELSE <<>>)
                           ELSE IF "children" \in DOMAIN PropsOf(component)
                                     /\ "explicitList" \in DOMAIN PropsOf(component).children
                           THEN PropsOf(component).children.explicitList
                           ELSE <<>>
                 present == SelectSeq(listed, LAMBDA c : c \in OdKeys(component_map))
                 children == [j \in DOMAIN present |->
                                 fragments[CHOOSE k \in DOMAIN component_map :
                                               component_map[k][1] = present[j]]]
                 open == IF type = "Card" THEN <<"<div class=\"a2ui-card\">">>
                         ELSE <<"<div class=\"", CssOf(type), "\">">>
             IN (type \in Containers \cup {"Card"} /\ WellShaped(component)) =>
                  /\ fragments[i].raised = (\E j \in DOMAIN children : children[j].raised)
                  /\ ~fragments[i].raised =>
                       fragments[i].html =
                           open \o Join([j \in DOMAIN children |-> children[j].html])
                                \o <<"</div>">>

\* render_surface has returned a Row over a Card, the absent c9 and a Heading,
\* the child of the Card being the absent c9
C19_Witness ==
    /\ IsRender
    /\ last[1].render = "s1"
    /\ rendered = Some(<<"<div class=\"a2ui-surface\">",
                         "<div class=\"", "a2ui-row", "\">",
                         "<div class=\"a2ui-card\">", "</div>",
                         "<h", "6", " class=\"a2ui-heading\">", "a&lt;b", "</h", "6", ">",
                         "</div>",
                         "<div class=\"a2ui-card\">", "</div>",
                         "<h", "6", " class=\"a2ui-heading\">", "a&lt;b", "</h", "6", ">",
                         "</div>">>)

\* C20: render_surface never raises: on every surface, records of malformed
\* shape included (properties that are not a map, a heading level that is
\* not a number, children that are not a map), the call returns output. The
\* surfaces are those without cyclic references, which C17 is about.
C20_RenderNeverRaises ==
    (IsRender /\ ~Cyclic(RenderedComponents)) => (~raised /\ rendered # None)

\* the last call was one of the accessors get_surface / get_data_model
IsRead == last # None /\ "call" \in DOMAIN last[1]
                      /\ last[1].call \in {"get_surface", "get_data_model"}

\* C21: a read on a surface id that is not registered neither raises nor
\* registers it: get_surface returns None, get_data_model returns a DataModel
\* whose data is empty, render_surface returns the empty string, and the
\* registry after the call is the registry before it.
C21_ReadsOfMissingAreNeutral ==
    [][ /\ (IsRead' /\ last'[1].surface_id \notin DOMAIN surfaces) =>
             /\ surfaces' = surfaces
             /\ ~raised'
             /\ last'[1].call = "get_surface" => last'[1].result = None
             /\ last'[1].call = "get_data_model" => last'[1].result = EmptyDict
        /\ (IsRender' /\ last'[1].render \notin DOMAIN surfaces) =>
             /\ surfaces' = surfaces
             /\ ~raised'
             /\ rendered' = Some(<<>>) ]_vars

\* get_data_model("s9") has returned while s1 is registered and s9 is not
C21_Witness ==
    /\ IsRead
    /\ last[1].call = "get_data_model"
    /\ last[1].surface_id = "s9"
    /\ ~existed
    /\ DOMAIN surfaces = {"s1"}

\* the last step was the caller changing the mapping get_surfaces returned
IsMutate == last # None /\ "call" \in DOMAIN last[1] /\ last[1].call = "mutate"

\* C22: setting, rebinding or deleting an entry of the mapping returned by
\* get_surfaces leaves the registry as it was: get_surface answers the same
\* for every id and a later get_surfaces returns the same mapping.
C22_GetSurfacesCopyOnRead ==
    [][ IsMutate' =>
          /\ surfaces' = surfaces
          /\ \A surface_id \in ApiIds \cup {"s2"} :
                GetSurface(surfaces', surface_id) = GetSurface(surfaces, surface_id)
          /\ GetSurfaces(surfaces') = GetSurfaces(surfaces) ]_vars

\* the caller has deleted s1 from the returned mapping and added s9 to it,
\* while the registry holds s1 and not s9
C22_Witness ==
    /\ IsMutate
    /\ snapshot # None
    /\ "s1" \notin DOMAIN snapshot[1].mapping
    /\ "s9" \in DOMAIN snapshot[1].mapping
    /\ "s1" \in DOMAIN surfaces
    /\ "s9" \notin DOMAIN surfaces

\* what a caller sees through the mapping it got from get_surfaces
SnapshotView ==
    IF snapshot = None THEN None
    ELSE Some([surface_id \in DOMAIN snapshot[1].mapping |->
                 snapshot[1].mapping[surface_id].surface])

WireKinds == { "beginRendering", "surfaceUpdate", "dataModelUpdate", "deleteSurface" }

\* C23: a mapping returned by get_surfaces is a snapshot: processing a
\* message afterwards changes nothing of the surfaces, components and data
\* models seen through it.
C23_SnapshotIsFrozen ==
    [][ LastKind' \in WireKinds => SnapshotView' = SnapshotView ]_vars

\* the message with every entry of its component list that is a record
WholeMessage(message) ==
    IF "surfaceUpdate" \in DOMAIN message /\ "components" \in DOMAIN message.surfaceUpdate
    THEN [message EXCEPT !.surfaceUpdate.components =
            SelectSeq(message.surfaceUpdate.components, LAMBDA comp : ~NotADict(comp))]
    ELSE message

\* C24: render_surface never walks a partially applied message: after a step
\* of process_message on a surfaceUpdate or dataModelUpdate, the record that
\* render_surface gets from get_surface, for every surface, is the one from
\* before the message or the one with the message applied in full, never one
\* with only some components of a surfaceUpdate inserted.
C24_RenderSeesWholeMessages ==
    [][ LastKind' \in {"surfaceUpdate", "dataModelUpdate"} =>
          \A surface_id \in ApiIds \cup {"s2"} :
             GetSurface(surfaces', surface_id)
               \in { GetSurface(surfaces, surface_id),
                     GetSurface(ProcessMessage(surfaces, WholeMessage(last'[1])).surfaces,
                                surface_id) } ]_vars

\* the registry with only the surface a in it, if it is there
Only(S, a) == [surface_id \in (DOMAIN S) \cap {a} |-> S[surface_id]]

\* C25: surfaces are independent. A message addressed to surface a leaves
\* every other surface as it was, its existence included, and what it does
\* to a is what it does when a is alone in the registry, so the state of a
\* surface is determined by the messages addressed to it.
C25_SurfacesIndependent ==
    [][ (LastKind' \in WireKinds /\ Addressed(last'[1]) # None) =>
          LET a == Addressed(last'[1])[1]
              alone == ProcessMessage(Only(surfaces, a), last'[1])
          IN /\ \A b \in ((DOMAIN surfaces) \cup (DOMAIN surfaces')) \ {a} :
                   /\ b \in DOMAIN surfaces
                   /\ b \in DOMAIN surfaces'
                   /\ surfaces'[b] = surfaces[b]
             /\ GetSurface(surfaces', a) = GetSurface(alone.surfaces, a)
             /\ raised' = alone.raised ]_vars

\* a deleteSurface has removed its surface and another surface, with
\* components or data, is still registered
C25_Witness ==
    /\ LastKind = "deleteSurface"
    /\ existed
    /\ Addressed(last[1])[1] \notin DOMAIN surfaces
    /\ \E b \in DOMAIN surfaces :
          surfaces[b].components # <<>> \/ surfaces[b].data_model # EmptyDict

\* the last entry of a component list that carries the id
LastEntry(components, id) ==
    components[CHOOSE i \in DOMAIN components :
                 /\ "id" \in DOMAIN components[i] /\ components[i].id = id
                 /\ \A j \in DOMAIN components :
                       ("id" \in DOMAIN components[j] /\ components[j].id = id) => j <= i]

\* C26: a surfaceUpdate entry whose id is already stored replaces the record:
\* after the message the record stored for each id it names is exactly the
\* entry of the message, with no field, weight or component type left from
\* the record the id had before.
C26_SameIdReplaces ==
    [][ (LastKind' = "surfaceUpdate" /\ ~raised') =>
          LET data == last'[1].surfaceUpdate
              s == SurfaceIdOf(data)
          IN \A id \in NamedIds(ComponentsOf(data)) :
                /\ id \in OdKeys(surfaces'[s].components)
                /\ OdGet(surfaces'[s].components, id) = LastEntry(ComponentsOf(data), id) ]_vars

\* c2 was stored before c3, which came in the message that set c2 to a Text,
\* and the last surfaceUpdate has put a record without component under c2
C26_Witness ==
    /\ LastKind = "surfaceUpdate"
    /\ existed
    /\ last[1].surfaceUpdate.components = <<[id |-> "c2"]>>
    /\ "s1" \in DOMAIN surfaces
    /\ Len(surfaces["s1"].components) = 2
    /\ surfaces["s1"].components[1] = <<"c2", [id |-> "c2"]>>
    /\ surfaces["s1"].components[2][1] = "c3"
    /\ "Heading" \in DOMAIN surfaces["s1"].components[2][2].component

\* the last call was clear_surfaces
IsClear == last # None /\ "call" \in DOMAIN last[1] /\ last[1].call = "clear_surfaces"

\* C27: no implicit expiry. A registered surface leaves the registry only by
\* a deleteSurface that names it or by clear_surfaces: no message to another
\* surface, no accessor, no render and no change to a returned mapping
\* removes it.
C27_NoImplicitExpiry ==
    [][ \A surface_id \in DOMAIN surfaces :
          surface_id \notin DOMAIN surfaces' =>
             \/ IsClear'
             \/ /\ LastKind' = "deleteSurface"
                /\ Addressed(last'[1]) = Some(surface_id) ]_vars

\* s1 is registered after a deleteSurface that removed s2
C27_Witness ==
    /\ LastKind = "deleteSurface"
    /\ existed
    /\ Addressed(last[1]) = Some("s2")
    /\ DOMAIN surfaces = {"s1"}
    /\ surfaces["s1"].components # <<>>

\* C28: clear_surfaces resets all state. After it the registry is the one of
\* a newly constructed processor: get_surfaces returns an empty mapping,
\* get_surface returns None for every id, and every message then acts as it
\* does on a new processor (and so does every sequence of messages, the
\* registry being all the state process_message reads).
C28_ClearResetsAll ==
    IsClear =>
       /\ surfaces = EmptyDict
       /\ GetSurfaces(surfaces).mapping = EmptyDict
       /\ \A surface_id \in ApiIds \cup {"s2"} : GetSurface(surfaces, surface_id) = None
       /\ \A message \in ApiMessages :
             ProcessMessage(surfaces, message) = ProcessMessage(EmptyDict, message)

\* clear_surfaces has been called on a registry that held s1 with components:
\* a mapping returned before the call still shows it
C28_Witness ==
    /\ IsClear
    /\ snapshot # None
    /\ "s1" \in DOMAIN snapshot[1].mapping
    /\ snapshot[1].mapping["s1"].surface.components # <<>>
    /\ snapshot[1].mapping["s1"].surface.data_model # EmptyDict

\* render_surface("s1") has returned and s1 holds the one component c1 of the
\* given type
LeafRendered(type) ==
    /\ IsRender
    /\ last[1].render = "s1"
    /\ "s1" \in DOMAIN surfaces
    /\ Len(surfaces["s1"].components) = 1
    /\ DOMAIN surfaces["s1"].components[1][2].component = {type}

LeafProps == surfaces["s1"].components[1][2].component

\* the output of render_surface around one fragment
InSurface(fragment) == Some(<<"<div class=\"a2ui-surface\">">> \o fragment \o <<"</div>">>)

\* C29: a Heading renders with its level clamped to 1..6: a level above 6 as
\* h6, a level of 0 or below as h1, a level from 1 to 6 as itself, and a
\* Heading without level as h2.
C29_HeadingLevelClamped ==
    LeafRendered("Heading") =>
       LET props == LeafProps.Heading
           h == IF "level" \notin DOMAIN props THEN "2"
                ELSE IF props.level.n >= 6 THEN "6"
                ELSE IF props.level.n <= 1 THEN "1"
                ELSE ToString(props.level.n)
       IN /\ ~raised
          /\ h \in {"1", "2", "3", "4", "5", "6"}
          /\ rendered = InSurface(<<"<h", h, " class=\"a2ui-heading\">", "hello", "</h", h, ">">>)

\* a Heading of level 9 has been rendered as h6
C29_Witness ==
    /\ LeafRendered("Heading")
    /\ "level" \in DOMAIN LeafProps.Heading
    /\ LeafProps.Heading.level = [n |-> 9]
    /\ rendered = InSurface(<<"<h", "6", " class=\"a2ui-heading\">", "hello", "</h", "6", ">">>)

\* the label a Button shows for a label that resolves, escaped for HTML; the
\* text of a boolean is given in either case, its case being C12's subject
ExpectedLabels(label, data) ==
    CASE label = [s |-> "OK"] -> { <<"OK">> }
      [] label \in { [s |-> ""], [m |-> [literalString |-> ""]] } -> { <<>> }
      [] label \in { [n |-> 5], [m |-> [literalNumber |-> 5]] } -> { <<"5">> }
      [] label = [b |-> TRUE] -> { <<"True">>, <<"true">> }
      [] label = [m |-> [literalString |-> "a<b"]] -> { <<"a&lt;b">> }
      [] label = [m |-> [literalBoolean |-> FALSE]] -> { <<"false">> }
      [] label = [m |-> [path |-> <<"x">>]] -> { <<"Rose">> }
      [] label = [m |-> [path |-> <<"y">>]] -> { <<"1">> }
      [] label = [m |-> [path |-> <<"x", "/", "y">>]] -> { <<"True">>, <<"true">> }

\* the label has something to resolve to: a literal, or a path whose every
\* segment is a key of the data model
Resolvable(label, data) ==
    CASE label = [m |-> [path |-> <<"x">>]] -> data \in { [x |-> [s |-> "Rose"]] }
      [] label = [m |-> [path |-> <<"y">>]] -> "y" \in DOMAIN data
      [] label = [m |-> [path |-> <<"x", "/", "y">>]] ->
           "x" \in DOMAIN data /\ IsDict(data.x) /\ "y" \in DOMAIN data.x.m
      [] OTHER -> TRUE

\* the path leads to a key of the data model
PathSet(label, data) ==
    IF label = [m |-> [path |-> <<"x">>]] THEN "x" \in DOMAIN data ELSE Resolvable(label, data)

ButtonAround(label) == InSurface(<<"<button class=\"a2ui-button\">">> \o label \o <<"</button>">>)

HasVariant(entry) ==
    (DOMAIN entry) \cap {"valueString", "valueNumber", "valueBoolean", "valueMap"} # {}

\* the positions of the entries that carry a value under the non-empty key k
Carrying(contents, k) ==
    { i \in DOMAIN contents :
        "key" \in DOMAIN contents[i] /\ contents[i].key = k /\ HasVariant(contents[i]) }

\* the non-empty keys of the entries that carry a value
KeptKeys(contents) ==
    { contents[i].key : i \in { j \in DOMAIN contents :
         "key" \in DOMAIN contents[j] /\ contents[j].key # "" /\ HasVariant(contents[j]) } }

\* the entry that sets k: the last one that carries a value under it
Setter(contents, k) ==
    contents[CHOOSE i \in Carrying(contents, k) : \A j \in Carrying(contents, k) : j <= i]

\* the entry sets a nested map: valueMap is its only variant
SetsMap(entry) ==
    (DOMAIN entry) \cap {"valueString", "valueNumber", "valueBoolean", "valueMap"}
        = {"valueMap"}

\* the map d holds the non-empty keys of contents and nothing else, and under
\* each key that is set to a nested map the same is true of the nested entries
RECURSIVE KeysAgree(_, _)
KeysAgree(contents, d) ==
    /\ DOMAIN d = KeptKeys(contents)
    /\ "" \notin DOMAIN d
    /\ \A k \in DOMAIN d :
          LET entry == Setter(contents, k)
          IN IF SetsMap(entry)
             THEN IsDict(d[k]) /\ KeysAgree(entry.valueMap, d[k].m)
             ELSE ~IsDict(d[k])

\* C31: in the conversion of contents every entry whose key is empty or
\* absent is dropped, at the top and inside every valueMap, and the entries
\* that remain are converted: the data model holds exactly the non-empty keys
\* of the entries, with nested maps for the entries that carry a valueMap.
C31_EmptyKeysDropped ==
    (LastKind = "dataModelUpdate" /\ "path" \notin DOMAIN last[1].dataModelUpdate
       /\ ~raised) =>
       KeysAgree(ContentsOf(last[1].dataModelUpdate),
                 surfaces[SurfaceIdOf(last[1].dataModelUpdate)].data_model)

\* contents with entries without key at the top and two levels down have
\* been converted to y = {x: {x: "Rose"}}
C31_Witness ==
    /\ LastKind = "dataModelUpdate"
    /\ Len(last[1].dataModelUpdate.contents) = 2
    /\ last[1].dataModelUpdate.contents[1] = [valueNumber |-> 2]
    /\ surfaces["s1"].data_model = [y |-> [m |-> [x |-> [m |-> [x |-> [s |-> "Rose"]]]]]]

\* the message with the surface id written out
WithSurfaceId(message, surface_id) ==
    LET kind == KindOf(message)
    IN [message EXCEPT ![kind] =
          [f \in (DOMAIN message[kind]) \cup {"surfaceId"} |->
             IF f = "surfaceId" THEN surface_id ELSE message[kind][f]]]

\* C32: a beginRendering, surfaceUpdate or dataModelUpdate without surfaceId
\* acts on the surface "default", as the same message with surfaceId
\* "default" does; a deleteSurface without surfaceId, or with an empty one,
\* deletes nothing, the surface "default" included.
C32_AbsentSurfaceId ==
    [][ /\ (LastKind' \in {"beginRendering", "surfaceUpdate", "dataModelUpdate"}
              /\ "surfaceId" \notin DOMAIN last'[1][LastKind']) =>
             /\ "default" \in DOMAIN surfaces'
             /\ surfaces'["default"].surface_id = "default"
             /\ surfaces' = ProcessMessage(surfaces, WithSurfaceId(last'[1], "default")).surfaces
             /\ \A b \in (DOMAIN surfaces) \ {"default"} :
                   b \in DOMAIN surfaces' /\ surfaces'[b] = surfaces[b]
        /\ (LastKind' = "deleteSurface"
              /\ ("surfaceId" \in DOMAIN last'[1].deleteSurface
                    => last'[1].deleteSurface.surfaceId = "")) =>
             /\ surfaces' = surfaces
             /\ ~raised' ]_vars

\* a deleteSurface without surfaceId has been processed and the surfaces
\* "default", with a component, and "" are still registered
C32_Witness ==
    /\ LastKind = "deleteSurface"
    /\ last[1].deleteSurface = EmptyDict
    /\ {"default", ""} \subseteq DOMAIN surfaces
    /\ surfaces["default"].components # <<>>

\* what the handler of one kind does with the body the message carries for it
Applied(S, kind, data) ==
    CASE kind = "beginRendering" -> HandleBeginRendering(S, data)
      [] kind = "surfaceUpdate" -> HandleSurfaceUpdate(S, data)
      [] kind = "dataModelUpdate" -> HandleDataModelUpdate(S, data)
      [] kind = "deleteSurface" -> HandleDeleteSurface(S, data)

\* C33: process_message applies one transition per message at most. When a
\* message carries several kinds, the registry afterwards is what the
\* handler of the first kind present, in the order beginRendering,
\* surfaceUpdate, dataModelUpdate, deleteSurface, makes of it alone: the
\* other kinds of the message change nothing.
C33_OneTransitionPerMessage ==
    [][ LastKind' \in WireKinds =>
          LET message == last'[1]
              first == IF "beginRendering" \in DOMAIN message THEN "beginRendering"
                       ELSE IF "surfaceUpdate" \in DOMAIN message THEN "surfaceUpdate"
                       ELSE IF "dataModelUpdate" \in DOMAIN message THEN "dataModelUpdate"
                       ELSE "deleteSurface"
              one == Applied(surfaces, first, message[first])
          IN /\ surfaces' = one.surfaces
             /\ raised' = one.raised ]_vars

\* a message carrying a beginRendering for s1, a surfaceUpdate and a
\* dataModelUpdate for s2 and a deleteSurface for s1 has left s1 newly begun
\* and s2 unregistered
C33_Witness ==
    /\ LastKind = "beginRendering"
    /\ DOMAIN last[1] = WireKinds
    /\ last[1].deleteSurface.surfaceId = "s1"
    /\ last[1].surfaceUpdate.surfaceId = "s2"
    /\ last[1].dataModelUpdate.surfaceId = "s2"
    /\ DOMAIN surfaces = {"s1"}
    /\ surfaces["s1"] = Surface("s1", Some("c1"), <<>>, EmptyDict, EmptyDict)

\* the record the update finds: the stored one, or the one the handler
\* creates for an id that is not registered
Found(S, surface_id) ==
    IF surface_id \in DOMAIN S THEN S[surface_id] ELSE NewSurface(surface_id)

\* C34: each update kind changes one attribute of its surface: a
\* surfaceUpdate leaves data_model, root_id and styles as they were, and a
\* dataModelUpdate leaves components, root_id and styles as they were,
\* whether the call returns or raises.
C34_UpdatesChangeOneAttribute ==
    [][ LastKind' \in {"surfaceUpdate", "dataModelUpdate"} =>
          LET s == Addressed(last'[1])[1]
              old == Found(surfaces, s)
              new == surfaces'[s]
          IN /\ new.root_id = old.root_id
             /\ new.styles = old.styles
             /\ new.surface_id = old.surface_id
             /\ LastKind' = "surfaceUpdate" => new.data_model = old.data_model
             /\ LastKind' = "dataModelUpdate" => new.components = old.components ]_vars

\* a surfaceUpdate has added c2 to a surface that keeps its root, its styles
\* and its data
C34_Witness ==
    /\ LastKind = "surfaceUpdate"
    /\ existed
    /\ ~raised
    /\ LET s == SurfaceIdOf(last[1].surfaceUpdate)
       IN /\ surfaces[s].root_id = <<"c1">>
          /\ surfaces[s].styles = Styles
          /\ surfaces[s].data_model = [x |-> [s |-> "Rose"]]
          /\ OdKeys(surfaces[s].components) = {"c1", "c2"}

\* the last step was an update of a DataModel returned by get_data_model
IsUpdateReturned ==
    last # None /\ "call" \in DOMAIN last[1] /\ last[1].call = "get_data_model.update"

\* C35: the DataModel returned by get_data_model is isolated from the
\* surface: an update on it, at the root or at any path, leaves the data
\* model the processor stores for the surface, and the rest of the registry,
\* unchanged.
C35_ReturnedDataModelIsolated ==
    [][ IsUpdateReturned' => surfaces' = surfaces ]_vars

\* the value of the first variant the entry carries, in the order
\* valueString, valueNumber, valueBoolean; entries that set a map are SetsMap
FirstScalar(entry) ==
    IF "valueString" \in DOMAIN entry THEN [s |-> entry.valueString]
    ELSE IF "valueNumber" \in DOMAIN entry THEN [n |-> entry.valueNumber]
    ELSE [b |-> entry.valueBoolean]

\* C36: in the conversion of contents an entry with a key and no value
\* variant adds no key; an entry with several variants gives the value of the
\* first present in the order valueString, valueNumber, valueBoolean,
\* valueMap; and of the entries that set the same key the last in the
\* sequence gives the value.
C36_VariantOrderAndLastWins ==
    (LastKind = "dataModelUpdate" /\ "path" \notin DOMAIN last[1].dataModelUpdate
       /\ ~raised) =>
       LET contents == ContentsOf(last[1].dataModelUpdate)
           d == surfaces[SurfaceIdOf(last[1].dataModelUpdate)].data_model
       IN /\ \A i \in DOMAIN contents :
                ("key" \in DOMAIN contents[i] /\ ~HasVariant(contents[i])
                   /\ Carrying(contents, contents[i].key) = {}) =>
                      contents[i].key \notin DOMAIN d
          /\ \A k \in Keys :
                Carrying(contents, k) # {} =>
                   LET entry == Setter(contents, k)
                   IN /\ k \in DOMAIN d
                      /\ ~SetsMap(entry) => d[k] = FirstScalar(entry)
                      /\ SetsMap(entry) => IsDict(d[k])

\* y is set by an entry with the four variants and then by one with a
\* boolean and a map: the result is y = true
C36_Witness ==
    /\ LastKind = "dataModelUpdate"
    /\ Len(last[1].dataModelUpdate.contents) = 2
    /\ DOMAIN last[1].dataModelUpdate.contents[1]
         = {"key", "valueString", "valueNumber", "valueBoolean", "valueMap"}
    /\ DOMAIN last[1].dataModelUpdate.contents[2] = {"key", "valueBoolean", "valueMap"}
    /\ surfaces["s1"].data_model = [y |-> [b |-> TRUE]]

\* C37: root_id and styles are set by beginRendering only. A surface that an
\* update creates has no root and empty styles; the root or the styles of a
\* surface change, or a surface appears with a root or with styles, only in
\* a beginRendering step addressed to it, which gives it the root and styles
\* it carries and an empty component map. So a surface with a root was last
\* created by a beginRendering carrying that root (here the one message that
\* carries root c1, with its styles, for s1), and holds no component
\* delivered before it.
C37_RootSetByBeginRenderingOnly ==
    /\ [][ \A s \in DOMAIN surfaces' :
             LET old == Found(surfaces, s)
                 new == surfaces'[s]
                 begun == /\ LastKind' = "beginRendering"
                          /\ SurfaceIdOf(last'[1].beginRendering) = s
             IN /\ (new.root_id # old.root_id \/ new.styles # old.styles) => begun
                /\ begun =>
                     /\ new.components = <<>>
                     /\ new.root_id = (IF "root" \in DOMAIN last'[1].beginRendering
                                       THEN Some(last'[1].beginRendering.root) ELSE None)
                     /\ new.styles = (IF "styles" \in DOMAIN last'[1].beginRendering
                                      THEN last'[1].beginRendering.styles ELSE EmptyDict)
                /\ (s \notin DOMAIN surfaces /\ ~begun) =>
                     (new.root_id = None /\ new.styles = EmptyDict) ]_vars
    /\ [](\A s \in DOMAIN surfaces :
             surfaces[s].root_id # None =>
                (s = "s1" /\ surfaces[s].root_id = Some("c1") /\ surfaces[s].styles = Styles))

\* s1 was begun with root c1 and then given c2 by a surfaceUpdate: it holds
\* the root, the styles and c2 only
C37_Witness ==
    /\ LastKind = "surfaceUpdate"
    /\ existed
    /\ "s1" \in DOMAIN surfaces
    /\ surfaces["s1"].root_id = Some("c1")
    /\ surfaces["s1"].styles = Styles
    /\ OdKeys(surfaces["s1"].components) = {"c2"}
    /\ surfaces["s1"].data_model = EmptyDict

\* C38: registry keys agree with record ids in every reachable state: the
\* surface stored under key s has surface_id = s, the component stored under
\* key c has id = c, and every key is a non-empty string.
C38_KeysAgreeWithIds ==
    \A s \in DOMAIN surfaces :
       /\ s # ""
       /\ surfaces[s].surface_id = s
       /\ \A i \in DOMAIN surfaces[s].components :
             LET c == surfaces[s].components[i][1]
                 record == surfaces[s].components[i][2]
             IN c # "" /\ "id" \in DOMAIN record /\ record.id = c

\* the positions of the items with is_task_complete = True among the yielded
Completes == { i \in DOMAIN agent.yielded : agent.yielded[i].is_task_complete }

\* the item yielded last
LastItem == agent.yielded[Len(agent.yielded)]

\* C39: ForestArchitectAgent.stream always ends, whatever the runner gives (no
\* final content, invalid UI content, valid content): the runner is invoked at
\* most max_retries + 1 = 2 times, no item with is_task_complete = True is
\* yielded while the call runs, and when it has ended exactly one such item has
\* been yielded and it is the last item.
C39_StreamEnds ==
    /\ [](/\ agent.invoked <= max_retries + 1
          /\ max_retries + 1 = 2
          /\ agent.pc # "done" => Completes = {}
          /\ agent.pc = "done" => Completes = { Len(agent.yielded) })
    /\ <>(agent.pc = "done")

\* the call ended with the last apology after two invocations of the runner,
\* with processing items yielded before it
C39_Witness ==
    /\ agent.pc = "done"
    /\ agent.invoked = 2
    /\ Len(agent.yielded) > 1
    /\ LastItem = Final(TroubleApology)

\* C40: with use_ui set, the content of the final item is one of the fixed
\* apology texts, or a response of the runner that holds the delimiter and
\* whose JSON part is empty, is "[]" once cleaned, or parsed and passed the
\* schema validation once cleaned.
C40_DeliveredValidOrApology ==
    (agent.use_ui /\ agent.pc = "done") =>
        LET content == LastItem.content
        IN \/ content \in { ConfigApology, ErrorApology, TroubleApology }
           \/ /\ content \in RunnerResponses
              /\ HasDelimiter(content)
              /\ LET json_string == JsonString(content)
                 IN \/ Strip(json_string) = <<>>
                    \/ Clean(json_string) = <<"[]">>
                    \/ /\ Loads(Clean(json_string))
                       /\ Validates(Clean(json_string))

\* with use_ui set, a response of the runner was delivered on the second
\* attempt, the first having failed validation
C40_Witness ==
    /\ agent.use_ui
    /\ agent.pc = "done"
    /\ agent.query = "invalid_retry"
    /\ LastItem.content \in RunnerResponses
    /\ Validates(Clean(JsonString(LastItem.content)))
    /\ Clean(JsonString(LastItem.content)) # <<"[]">>

====
